---- MODULE Spec2Model ----
(***************************************************************************)
(* A model of @grammarly/embrace: the reactive map projector               *)
(* (internal/rx_map.ts), the discriminated-union splitter                  *)
(* (internal/rx_split_by.ts), the tree engine (ui.ts: mount, squash,       *)
(* patch, promap) and the flows of flow.ts (composeKnot, composeUnion,     *)
(* fromSideEffect, patchState, extendActions, patch, replaceActions,      *)
(* animatingFlow).                                                         *)
(*                                                                         *)
(* The specifications of the module:                                       *)
(*   SpecFold      one fromFoldable pipeline fed with arbitrary collections*)
(*   SpecSplit     one splitBy subscriber with its outer and inner         *)
(*                 consumers                                               *)
(*   Spec          a mounted tree of parts fed with composed states        *)
(*   SpecPatch     a tree of part objects patched at arbitrary paths       *)
(*   SpecPromap    a part under promap mounted beside the part it must     *)
(*                 equal                                                   *)
(*   SpecMount     the state broadcast of one mount and its consumers      *)
(*   SpecKnotFlow  a flow built by composeKnot and its action stream       *)
(*   SpecUnionFlow a flow built by composeUnion and its action stream      *)
(*   SpecFlowEdit  a flow made by fromSideEffect or by editing a flow      *)
(*   SpecAnim      a flow built by animatingFlow, its timers and events    *)
(* Each leaves the variables of the others at their initial values.        *)
(***************************************************************************)
EXTENDS Integers, Sequences, FiniteSets, TLC

VARIABLES
  \* ---- fromFoldable pipeline (rx_map.ts) ----
  ffSeen,      \* the first distinctUntilChanged() holds a previous collection
  ffLast,      \* that collection: [ks |-> traversal order, val |-> key -> value]
  ffAcc,       \* accumulator of Rx.scan: the Map of key -> BehaviorSubject
  ffEmitted,   \* the second distinctUntilChanged holds a previous Map
  ffOut,       \* that Map: the most recent value of the outer stream
  ffOutN,      \* number of values the outer stream has emitted
  ffSubj,      \* every BehaviorSubject created so far: id -> values it emitted
  ffSteps,     \* collections fed so far
  \* ---- splitBy subscriber (rx_split_by.ts) ----
  sb,          \* the SplitBySubscriber, its groups and what its consumers saw
  sbUp,        \* the upstream: live, complete, or the error it failed with
  sbN,         \* upstream notifications so far
  \* ---- mounted tree (ui.ts) ----
  part,        \* the name of the UI part given to mount
  tree,        \* what squash(part) rendered: the live instances
  ids,         \* renderCount and the next BehaviorSubject id
  cur,         \* the composed state the flow emitted last: [has, v]
  stateN,      \* composed states emitted so far
  actions,     \* the values the mount's action Subject passed to the flow
  notified,    \* the notify calls made so far: [path, a]
  \* ---- patch (ui.ts) ----
  pHeap,       \* every part object created so far
  pRoot,       \* the reference of the current tree
  pIn,         \* the last call of patch: the heap and root before it, path, f
  pCalls,      \* the arguments f was called with in that call
  pThrown,     \* that call threw
  pN,          \* calls of patch so far
  \* ---- two mounted parts side by side (ui.ts promap) ----
  pmCase,      \* the part and the adapters: [base, kind, f1, g1, f2, g2]
  pmA,         \* what the left part rendered
  pmB,         \* what the right part rendered
  pmIdsA,      \* renderCount and next subject id of the left mount
  pmIdsB,      \* the same of the right mount
  pmCur,       \* the state both flows emitted last
  pmN,         \* states emitted so far
  pmActsA,     \* the values the flow of the left mount received
  pmActsB,     \* the values the flow of the right mount received
  pmNotified,  \* the notify calls made so far, in both: [path, a]
  \* ---- the state broadcast of one mount (ui.ts mount) ----
  mSubs,       \* the consumers subscribed to props.state
  mSeen,       \* consumer -> the values it received since it subscribed
  mBuffer,     \* _events of the ReplaySubject of publishReplay(1)
  mFlowSubs,   \* live subscriptions to the output of uiFlow(action)
  mFlowIn,     \* the actions the flow received from the action Subject
  mNotified,   \* the actions given to notify
  mN,          \* values the flow has emitted; the n-th value is n
  mSubN,       \* subscriptions made so far
  mZeroAt,     \* mN when the last consumer unsubscribed last
  \* ---- a flow built by composeKnot (flow.ts) ----
  kfComp,      \* flowComposition: [keys |-> Object.keys, kind |-> key -> flow]
  kfSubscribed,\* the composed flow is subscribed
  kfCl,        \* the CombineLatestSubscriber: [values, toRespond, active, out, done]
  kfIn,        \* key -> the actions its flow received
  kfEmits,     \* the emissions of the child flows so far: [key, v]
  kfSent,      \* the actions the composed flow was given: [key, action]
  \* ---- a flow built by composeUnion (flow.ts) ----
  ufSel,       \* the kindSelector: [startWith |-> it emits a key when subscribed, key]
  ufSubscribed,\* the composed flow is subscribed
  ufObs,       \* observers of the action Subject, in the order they subscribed
  ufActive,    \* the inner subscription of switchMap: [has, v |-> [key, id]]
  ufNextId,    \* the number of the next subscription to a member flow
  ufSent,      \* the actions given: [key, action, active |-> ufActive before]
  ufSelIn,     \* the numbers in ufSent of the actions the kindSelector received
  ufIn,        \* the actions the member flows received: [key, id, action, n, active]
  ufOut,       \* the states emitted: [state, from, active]
  \* ---- a flow made by fromSideEffect or by editing a flow (flow.ts) ----
  feKind,      \* the function that made the flow
  feSource,    \* fromSideEffect: the state is a plain "value" or an "observable"
  feSubscribed,\* the flow is subscribed
  feSent,      \* the incoming actions
  fePIn,       \* the actions sideEffect / contramapActions was called with
  feFlowIn,    \* the actions the original flow observed
  feOrig,      \* the states the original flow or the state source emitted
  feOut,       \* the states the flow emitted
  \* ---- a flow built by animatingFlow (flow.ts) ----
  anIter,      \* iterationVar
  anAcc,       \* accumulator of the outer Rx.scan (collectAnimationState)
  anInner,     \* accumulator of the inner Rx.scan (the applicators applied)
  anOut,       \* the animation states the latest step emitted
  anLast,      \* the animation state emitted last
  anPrev,      \* getEventsByKey of the outgoing iteration, its timer
  anNext,      \* getEventsByKey of the incoming iteration, its timer
  anDebounce,  \* debounceTime: ms until the pending state goes out, -1: none
  anReplay,    \* the buffer of publishReplay(1): the latest action
  anAge,       \* ms since switchMap subscribed its inner Observable
  anSeen,      \* an action has passed the filter of a getEventsByKey since
  anDecision,  \* what the decision function decided for the latest state
  anCount,     \* [states, actions, ticks] so far, and actions forwarded
  anSubscribed \* the output of the flow is subscribed

ffVars == <<ffSeen, ffLast, ffAcc, ffEmitted, ffOut, ffOutN, ffSubj, ffSteps>>

(***************************************************************************)
(* Bounds                                                                  *)
(***************************************************************************)
MaxFoldSteps == 3
MaxSplitSteps == 4
MaxInnerSubs == 2
MaxDeliver == 3
MaxNotify == 1

\* the keys and values collections are drawn from
FoldKeys == {"x", "y"}
FoldVals == {1, 2}

(***************************************************************************)
(* A JavaScript Map: a sequence of entries in insertion order.             *)
(***************************************************************************)
EmptyMap == << >>

MapKeys(m) == {m[i].key : i \in 1..Len(m)}

MapHas(m, k) == \E i \in 1..Len(m) : m[i].key = k

MapGet(m, k) == (CHOOSE e \in {m[i] : i \in 1..Len(m)} : e.key = k).subj

\* Map.prototype.set: overwrite in place or append
MapSet(m, k, s) ==
  IF MapHas(m, k)
  THEN [i \in 1..Len(m) |-> IF m[i].key = k THEN [key |-> k, subj |-> s] ELSE m[i]]
  ELSE Append(m, [key |-> k, subj |-> s])

(***************************************************************************)
(* rx_map.ts                                                               *)
(***************************************************************************)

\* Eq.fromEquals(() => true): every two BehaviorSubjects count as equal
valueEq(a, b) == TRUE

\* mutant: no two Maps are equal
getEqByValueNever(a, b) == FALSE

\* mutant: the two Maps are compared by size alone
getEqByValueSizeOnly(a, b) == Len(a) = Len(b)

\* getEqByValue(valueEq).equals: same size and every key of a is a key of b
getEqByValue(a, b) ==
  /\ Len(a) = Len(b)
  /\ \A i \in 1..Len(a) :
       MapHas(b, a[i].key) /\ valueEq(a[i].subj, MapGet(b, a[i].key))

\* mutant: the lookup in the previous Map never finds a subject
existingNever(oldState, key) == [found |-> FALSE, subj |-> 0]

\* const existing = oldState.get(key); existing !== undefined
existing(oldState, key) ==
  IF MapHas(oldState, key)
  THEN [found |-> TRUE, subj |-> MapGet(oldState, key)]
  ELSE [found |-> FALSE, subj |-> 0]

\* The reducer of foldable.reduceWithIndex inside Rx.scan, run over the keys
\* ks in the foldable's traversal order. Subject ids are allocated from ctr.
\* Returns the new Map, the next free id, and what happened to the subjects:
\* pushed (existing.next(value)) and created (new BehaviorSubject(value)).
RECURSIVE reduceWithIndex(_, _, _, _)
reduceWithIndex(ks, val, oldState, r) ==
  IF ks = << >> THEN r
  ELSE LET key == Head(ks)
           e   == existing(oldState, key)
       IN IF e.found
          THEN reduceWithIndex(Tail(ks), val, oldState,
                 [r EXCEPT !.map = MapSet(@, key, e.subj),
                           !.pushed = Append(@, [subj |-> e.subj, key |-> key,
                                                 value |-> val[key]])])
          ELSE reduceWithIndex(Tail(ks), val, oldState,
                 [r EXCEPT !.map = MapSet(@, key, r.ctr),
                           !.ctr = @ + 1,
                           !.created = Append(@, [subj |-> r.ctr, key |-> key,
                                                  value |-> val[key]])])

scanStep(oldState, ks, val, ctr) ==
  reduceWithIndex(ks, val, oldState,
    [map |-> EmptyMap, ctr |-> ctr, pushed |-> << >>, created |-> << >>])

\* One value through the whole pipeline of fromFoldable. st is the state the
\* three operators keep: [seen, acc, emitted, out]. sameRef says the incoming
\* collection is the very object received before.
\*   distinctUntilChanged()          drops it when sameRef
\*   scan(...)                       scanStep
\*   distinctUntilChanged(equals)    emits the first Map, then on key changes
fromFoldable(st, sameRef, ks, val, ctr) ==
  IF st.seen /\ sameRef
  THEN [st |-> st, ctr |-> ctr, pushed |-> << >>, created |-> << >>,
        emit |-> FALSE]
  ELSE LET r    == scanStep(st.acc, ks, val, ctr)
           emit == ~st.emitted \/ ~getEqByValue(st.out, r.map)
       IN [st |-> [seen |-> TRUE, acc |-> r.map, emitted |-> TRUE,
                   out |-> IF emit THEN r.map ELSE st.out],
           ctr |-> r.ctr, pushed |-> r.pushed, created |-> r.created,
           emit |-> emit]

FoldInit == [seen |-> FALSE, acc |-> EmptyMap, emitted |-> FALSE, out |-> EmptyMap]

(***************************************************************************)
(* SpecFold: one pipeline, any sequence of collections                     *)
(***************************************************************************)

\* every collection over FoldKeys: a traversal order of distinct keys and a
\* value for each of them
FoldOrders ==
  {ks \in UNION {[1..n -> FoldKeys] : n \in 0..Cardinality(FoldKeys)} :
     \A i, j \in 1..Len(ks) : i # j => ks[i] # ks[j]}

Range(s) == {s[i] : i \in 1..Len(s)}

FoldColls ==
  UNION {{[ks |-> ks, val |-> v] : v \in [Range(ks) -> FoldVals]} : ks \in FoldOrders}

ffState == [seen |-> ffSeen, acc |-> ffAcc, emitted |-> ffEmitted, out |-> ffOut]

ffCtr == Cardinality(DOMAIN ffSubj) + 1

ApplySubjects(subj, r) ==
  [id \in DOMAIN subj \cup {r.created[i].subj : i \in 1..Len(r.created)} |->
     IF id \in DOMAIN subj
     THEN IF \E i \in 1..Len(r.pushed) : r.pushed[i].subj = id
          THEN Append(subj[id],
                 (CHOOSE p \in Range(r.pushed) : p.subj = id).value)
          ELSE subj[id]
     ELSE <<(CHOOSE c \in Range(r.created) : c.subj = id).value>>]

FoldFeed(c, sameRef) ==
  LET r == fromFoldable(ffState, sameRef, c.ks, c.val, ffCtr)
  IN /\ ffSeen' = TRUE
     /\ ffLast' = c
     /\ ffAcc' = r.st.acc
     /\ ffEmitted' = r.st.emitted
     /\ ffOut' = r.st.out
     /\ ffOutN' = IF r.emit THEN ffOutN + 1 ELSE ffOutN
     /\ ffSubj' = ApplySubjects(ffSubj, r)
     /\ ffSteps' = ffSteps + 1

\* the source emits a collection object it has not emitted before
FoldNext ==
  /\ ffSteps < MaxFoldSteps
  /\ \E c \in FoldColls : FoldFeed(c, FALSE)

\* the source emits the object it emitted last once more
FoldNextSame ==
  /\ ffSteps < MaxFoldSteps
  /\ ffSeen
  /\ FoldFeed(ffLast, TRUE)

FoldVarsInit ==
  /\ ffSeen = FALSE
  /\ ffLast = [ks |-> << >>, val |-> << >>]
  /\ ffAcc = EmptyMap
  /\ ffEmitted = FALSE
  /\ ffOut = EmptyMap
  /\ ffOutN = 0
  /\ ffSubj = << >>
  /\ ffSteps = 0

(***************************************************************************)
(* rx_split_by.ts                                                          *)
(*                                                                         *)
(* The subscriber is the record                                            *)
(*   current      _currentGroup: [some, key, group]                        *)
(*   groups       every BehaviorSubject created by _createGroup, by id:    *)
(*                [key, vals, status, closed, subs, loose]                 *)
(*                vals: the values it emitted (the seed first); status:    *)
(*                open / complete / error; subs: subscriptions holding a   *)
(*                reference count; loose: subscriptions made after the     *)
(*                subscriber closed, which hold none                       *)
(*   count, attemptedToUnsubscribe                                         *)
(*   closed, isStopped   of the SplitBySubscriber itself                   *)
(*   destStopped  the destination (the outer subscriber) is stopped        *)
(*   log          what the consumers observed, in order:                   *)
(*                [ev, g, v] with ev one of outerNext, outerComplete,      *)
(*                outerError, groupNext, groupComplete, groupError         *)
(***************************************************************************)
SplitTags == {"A", "B"}
SplitErrs == {"e1", "e2"}

NoGroup == [some |-> FALSE, key |-> "-", group |-> 0]

SplitInit ==
  [current |-> NoGroup, groups |-> << >>, count |-> 0,
   attemptedToUnsubscribe |-> FALSE, closed |-> FALSE, isStopped |-> FALSE,
   destStopped |-> FALSE, log |-> << >>]

\* v: the value of a groupNext, the error of a groupError or outerError
NoVal == [kind |-> "-", n |-> 0]
ErrVal(err) == [kind |-> err, n |-> 0]
Ev(ev, g, v) == [ev |-> ev, g |-> g, v |-> v]

\* Subscriber.unsubscribe of the base class: stop and close
superUnsubscribe(s) == [s EXCEPT !.isStopped = TRUE, !.closed = TRUE]

\* mutant: the subscriber closes although groups are still subscribed
unsubscribeAlways(s) ==
  IF ~s.closed
  THEN superUnsubscribe([s EXCEPT !.attemptedToUnsubscribe = TRUE])
  ELSE s

\* SplitBySubscriber.unsubscribe
unsubscribe(s) ==
  IF ~s.closed
  THEN LET s1 == [s EXCEPT !.attemptedToUnsubscribe = TRUE]
       IN IF s1.count = 0 THEN superUnsubscribe(s1) ELSE s1
  ELSE s

\* InnerRefCountSubscription.unsubscribe, once for each of n subscriptions
\* of a group that hold a reference count
RECURSIVE releaseInner(_, _)
releaseInner(s, n) ==
  IF n = 0 THEN s
  ELSE IF s.closed THEN s
  ELSE LET s1 == [s EXCEPT !.count = @ - 1]
       IN releaseInner(IF s1.count = 0 /\ s1.attemptedToUnsubscribe
                       THEN unsubscribe(s1) ELSE s1, n - 1)

\* Subject.complete / Subject.error on a group: its subscribers are notified
\* and thereby unsubscribed, which releases their reference counts
groupEnd(s, g, status, err) ==
  IF s.groups[g].status # "open" THEN s
  ELSE LET n  == s.groups[g].subs
           s1 == [s EXCEPT !.groups[g].status = status,
                           !.groups[g].subs = 0,
                           !.groups[g].loose = 0,
                           !.log = Append(@, Ev(IF status = "complete"
                                                THEN "groupComplete"
                                                ELSE "groupError", g, err))]
       IN releaseInner(s1, n)

\* Subject.next on a group
groupNext(s, g, value) ==
  IF s.groups[g].status # "open" THEN s
  ELSE [s EXCEPT !.groups[g].vals = Append(@, value),
                 !.log = Append(@, Ev("groupNext", g, value))]

\* mutant: the destination takes a group although it is stopped
destNextUnchecked(s, g) == [s EXCEPT !.log = Append(@, Ev("outerNext", g, NoVal))]

\* Subscriber.next / complete / error of the destination: nothing is
\* delivered once it is stopped
destNext(s, g) ==
  IF s.destStopped THEN s
  ELSE [s EXCEPT !.log = Append(@, Ev("outerNext", g, NoVal))]

\* a terminal notification stops the destination, which then unsubscribes
\* and with it the SplitBySubscriber it holds
destEnd(s, ev, err) ==
  IF s.destStopped THEN s
  ELSE unsubscribe([s EXCEPT !.destStopped = TRUE,
                             !.log = Append(@, Ev(ev, 0, err))])

\* mutant: the new group is not seeded with the value that opened it
_createGroupUnseeded(s, key, value) ==
  LET g  == Len(s.groups) + 1
      s1 == [s EXCEPT !.groups = Append(@, [key |-> key, vals |-> << >>,
                                           status |-> "open", closed |-> FALSE,
                                           subs |-> 0, loose |-> 0]),
                      !.current = [some |-> TRUE, key |-> key, group |-> g]]
  IN destNext(s1, g)

\* _createGroup
_createGroup(s, key, value) ==
  LET g  == Len(s.groups) + 1
      s1 == [s EXCEPT !.groups = Append(@, [key |-> key, vals |-> <<value>>,
                                           status |-> "open", closed |-> FALSE,
                                           subs |-> 0, loose |-> 0]),
                      !.current = [some |-> TRUE, key |-> key, group |-> g]]
  IN destNext(s1, g)

\* (adt: ADT) => adt[discriminant]
_keySelector(value) == value.kind

\* mutant: a changed discriminant is pushed into the open group
_nextNoSwitch(s, value) ==
  IF ~s.current.some THEN _createGroup(s, _keySelector(value), value)
  ELSE groupNext(s, s.current.group, value)

\* mutant: the group of a discriminant seen before is resumed
_nextResume(s, value) ==
  LET key == _keySelector(value)
      old == {g \in 1..Len(s.groups) : s.groups[g].key = key}
  IN IF ~s.current.some THEN _createGroup(s, key, value)
     ELSE IF s.current.key # key
     THEN LET s1 == groupEnd(s, s.current.group, "complete", NoVal)
          IN IF old = {} THEN _createGroup([s1 EXCEPT !.current = NoGroup], key, value)
             ELSE LET g == CHOOSE g \in old : TRUE
                  IN destNext([s1 EXCEPT !.groups[g].status = "open",
                                         !.groups[g].vals = Append(@, value),
                                         !.current = [some |-> TRUE, key |-> key,
                                                      group |-> g]], g)
     ELSE groupNext(s, s.current.group, value)

\* _next
_next(s, value) ==
  LET key == _keySelector(value)
  IN IF ~s.current.some THEN _createGroup(s, key, value)
     ELSE IF s.current.key # key
     THEN LET s1 == groupEnd(s, s.current.group, "complete", NoVal)
          IN _createGroup([s1 EXCEPT !.current = NoGroup], key, value)
     ELSE IF ~s.groups[s.current.group].closed
     THEN groupNext(s, s.current.group, value)
     ELSE s

\* mutant: the outer stream fails before the open group is told
_errorOuterFirst(s, err) ==
  LET s1 == destEnd(s, "outerError", ErrVal(err))
      s2 == IF s1.current.some
            THEN groupEnd(s1, s1.current.group, "error", ErrVal(err)) ELSE s1
  IN [s2 EXCEPT !.current = NoGroup]

\* _error
_error(s, err) ==
  LET s1 == IF s.current.some
            THEN groupEnd(s, s.current.group, "error", ErrVal(err)) ELSE s
  IN destEnd([s1 EXCEPT !.current = NoGroup], "outerError", ErrVal(err))

\* mutant: the open group is left open when the upstream completes
_completeOuterOnly(s) == destEnd(s, "outerComplete", NoVal)

\* _complete
_complete(s) ==
  LET s1 == IF s.current.some
            THEN groupEnd(s, s.current.group, "complete", NoVal) ELSE s
  IN destEnd([s1 EXCEPT !.current = NoGroup], "outerComplete", NoVal)

\* GroupedObservable._subscribe: the subscription holds a reference count
\* unless the subscriber is closed already
innerSubscribe(s, g) ==
  IF s.closed
  THEN [s EXCEPT !.groups[g].loose = @ + 1]
  ELSE [s EXCEPT !.groups[g].subs = @ + 1, !.count = @ + 1]

\* Subscriber.next / error / complete of the base class
next(s, value) == IF s.isStopped THEN s ELSE _next(s, value)

error(s, err) ==
  IF s.isStopped THEN s ELSE _error([s EXCEPT !.isStopped = TRUE], err)

complete(s) ==
  IF s.isStopped THEN s ELSE _complete([s EXCEPT !.isStopped = TRUE])

(***************************************************************************)
(* SpecSplit: one subscriber, its upstream and its consumers               *)
(***************************************************************************)

\* the upstream emits a value; values are numbered so that each is distinct
SplitNext ==
  /\ sbN < MaxSplitSteps
  /\ ~sb.closed
  /\ sbUp = "live"
  /\ \E tag \in SplitTags :
       sb' = next(sb, [kind |-> tag, n |-> sbN + 1])
  /\ sbN' = sbN + 1
  /\ UNCHANGED sbUp

SplitComplete ==
  /\ sbN < MaxSplitSteps
  /\ ~sb.closed
  /\ sbUp = "live"
  /\ sb' = complete(sb)
  /\ sbUp' = "complete"
  /\ sbN' = sbN + 1

SplitError ==
  /\ sbN < MaxSplitSteps
  /\ ~sb.closed
  /\ sbUp = "live"
  /\ \E err \in SplitErrs : sb' = error(sb, err) /\ sbUp' = err
  /\ sbN' = sbN + 1

\* the subscriber of the outer stream unsubscribes
SplitOuterUnsubscribe ==
  /\ ~sb.destStopped
  /\ sb' = unsubscribe([sb EXCEPT !.destStopped = TRUE])
  /\ UNCHANGED <<sbN, sbUp>>

\* the groups the outer subscriber was handed
Delivered(s) == {s.log[i].g : i \in {j \in 1..Len(s.log) : s.log[j].ev = "outerNext"}}

\* a consumer subscribes to a group it was handed
SplitInnerSubscribe ==
  /\ \E g \in Delivered(sb) :
       /\ sb.groups[g].status = "open"
       /\ sb.groups[g].subs + sb.groups[g].loose < MaxInnerSubs
       /\ sb' = innerSubscribe(sb, g)
  /\ UNCHANGED <<sbN, sbUp>>

\* a consumer of a group unsubscribes
SplitInnerUnsubscribe ==
  /\ \E g \in 1..Len(sb.groups) :
       \/ /\ sb.groups[g].subs > 0
          /\ sb' = releaseInner([sb EXCEPT !.groups[g].subs = @ - 1], 1)
       \/ /\ sb.groups[g].loose > 0
          /\ sb' = [sb EXCEPT !.groups[g].loose = @ - 1]
  /\ UNCHANGED <<sbN, sbUp>>

SplitVarsInit ==
  /\ sb = SplitInit
  /\ sbUp = "live"
  /\ sbN = 0

(***************************************************************************)
(* ui.ts: parts                                                            *)
(*                                                                         *)
(* A part is the record the make functions build; a Node (and a Grid) is a *)
(* render function, here the record [node |-> its name].                   *)
(***************************************************************************)
ROOT == "root"

NodeP(name) == [node |-> name]

KnotP(grid, children) == [grid |-> grid, children |-> children]

CompositeP(grid, child) == [grid |-> grid, child |-> child]

ListP(foldable, of) == [foldable |-> foldable, of |-> of]

UnionP(tag, members) == [tag |-> tag, members |-> members]

isKnot(p) == "children" \in DOMAIN p

isComposite(p) == "child" \in DOMAIN p

isList(p) == "foldable" \in DOMAIN p

isUnion(p) == "members" \in DOMAIN p

\* Object.keys(...).sort() of Record.reduceWithIndex: every key the model
\* uses, in ascending order
KeyOrder == <<"a", "b", "c", "k1", "k2", "kind", "one", "root", "two", "v", "x">>

SortKeys(S) == SelectSeq(KeyOrder, LAMBDA k : k \in S)

(***************************************************************************)
(* The value an Observable emitted last, if any.                           *)
(***************************************************************************)
None == [has |-> FALSE]

Some(v) == [has |-> TRUE, v |-> v]

(***************************************************************************)
(* notify functions. A notify function is the list of what it does to an   *)
(* action on the way to the mount's Subject, the outermost first: [key]    *)
(* wraps it in { key, action }, [map] applies mapAction of a promap.       *)
(* constVoid drops the action.                                             *)
(***************************************************************************)
rootNotify == [void |-> FALSE, keys |-> << >>]

\* mutant: the Grid of a Composite notifies the sink of the Composite
constLoud == [void |-> FALSE, keys |-> << >>]

constVoid == [void |-> TRUE, keys |-> << >>]

\* mutant: the action is passed on without its key
makeNamespacedNodeFlat(key, notify) == notify

\* makeNamespacedNode(key, node) invoked with props.notify = notify: the
\* node notifies through a => notify({ key, action: a })
makeNamespacedNode(key, notify) == [notify EXCEPT !.keys = Append(@, [key |-> key])]

\* the adapters given to promap in the model. A function given to promap
\* is a sequence of their names, the composition of them: << >> is identity,
\* <<"f1", "f2">> is s => f1(f2(s)).
StateFns == {"f1", "f2"}

ActionFns == {"g1", "g2"}

stateFn(name, s) == IF name = "f1" THEN s + 10 ELSE s * 3

actionFn(name, a) == IF name = "g1" THEN [g1 |-> a] ELSE [g2 |-> a]

RECURSIVE applyStateFn(_, _)
applyStateFn(fn, s) ==
  IF fn = << >> THEN s ELSE stateFn(Head(fn), applyStateFn(Tail(fn), s))

RECURSIVE applyActionFn(_, _)
applyActionFn(fn, a) ==
  IF fn = << >> THEN a ELSE actionFn(Head(fn), applyActionFn(Tail(fn), a))

\* the value a notify function hands to the mount's Subject for action a
RECURSIVE applyNotify(_, _)
applyNotify(keys, a) ==
  IF keys = << >> THEN a
  ELSE LET e == keys[Len(keys)]
       IN applyNotify(SubSeq(keys, 1, Len(keys) - 1),
                      IF "key" \in DOMAIN e
                      THEN [key |-> e.key, action |-> a]
                      ELSE applyActionFn(e.map, a))

(***************************************************************************)
(* ui.ts: squash. An instance is what a squashed part rendered and the     *)
(* state its pipeline holds:                                               *)
(*   node       [t, name, render, notify, last]   render: the number of    *)
(*              the invocation of a render function that made it           *)
(*   composite  [t, grid, child, notify, last]                             *)
(*   knot       [t, ff, rendered, grid, kids, bind, notify, last]          *)
(*              bind: key -> the subject the child (ROOT: the grid) is     *)
(*              bound to, 0 for EMPTY                                      *)
(*   list       [t, ff, cache, notify, last]  cache: [key, subj, el] in    *)
(*              the order of the rendered fragment                         *)
(*   union      [t, sb, rendered, key, member, notify, last]               *)
(* last is the value received last on props.state.                         *)
(***************************************************************************)
NoInst == [t |-> "none"]

NodeInst(name, render, notify, init) ==
  [t |-> "node", name |-> name, render |-> render, notify |-> notify, last |-> init,
   pre |-> << >>]

(***************************************************************************)
(* ui.ts: promap. A render function (a Node, a Grid) under promap is the   *)
(* function with the adapter pairs around it, the outermost first: the     *)
(* field layers of a Node part, and of a Knot part for its Grid.           *)
(***************************************************************************)
layersOf(p) == IF "layers" \in DOMAIN p THEN p.layers ELSE << >>

\* what rendering props => (uiNode as UINodeAny)({...}) comes to when uiNode
\* is an object and no function: the call throws
TypeError == "TypeError: uiNode is not a function"

\* promap(uiNode, contramapState, mapAction). The last branch returns a
\* function that calls uiNode whatever uiNode is: a part that is neither a
\* Knot nor a List is taken for a render function.
RECURSIVE promap(_, _, _)
promap(uiNode, contramapState, mapAction) ==
  LET layer == [contramapState |-> contramapState, mapAction |-> mapAction]
  IN IF isKnot(uiNode)
     THEN [grid |-> uiNode.grid, children |-> uiNode.children,
           layers |-> <<layer>> \o layersOf(uiNode)]
     ELSE IF isList(uiNode)
     THEN [foldable |-> uiNode.foldable,
           of |-> promap(uiNode.of, contramapState, mapAction)]
     ELSE [node |-> IF "node" \in DOMAIN uiNode THEN uiNode.node ELSE TypeError,
           layers |-> <<layer>> \o layersOf(uiNode)]

\* mutant: the wrapped function's actions go nowhere
localVoid(notify, mapAction) == constVoid

\* pipe(props.notify, R.local(mapAction))
local(notify, mapAction) == [notify EXCEPT !.keys = Append(@, [map |-> mapAction])]

\* the notify the innermost function is called with
RECURSIVE localAll(_, _)
localAll(notify, layers) ==
  IF layers = << >> THEN notify
  ELSE localAll(local(notify, Head(layers).mapAction), Tail(layers))

\* mutant: the adapters of the inner promap are applied first
RECURSIVE mapStateInnerFirst(_, _)
mapStateInnerFirst(layers, s) ==
  IF layers = << >> THEN s
  ELSE applyStateFn(Head(layers).contramapState, mapStateInnerFirst(Tail(layers), s))

\* pipe(props.state, Rx.map(contramapState)), layer after layer: the value
\* the innermost function sees for the value s
RECURSIVE mapState(_, _)
mapState(layers, s) ==
  IF layers = << >> THEN s
  ELSE mapState(Tail(layers), applyStateFn(Head(layers).contramapState, s))

mapOption(layers, so) == IF so.has THEN Some(mapState(layers, so.v)) ELSE so

\* a render function with the adapters layers around it is called
callNode(name, layers, render, notify, init) ==
  [NodeInst(name, render, localAll(notify, layers), mapOption(layers, init))
     EXCEPT !.pre = layers]

RECURSIVE Resolve(_, _, _, _)
RECURSIVE Push(_, _, _, _, _)
RECURSIVE PushKids(_, _, _, _, _)
RECURSIVE ResolveKids(_, _, _, _, _, _)
RECURSIVE PushCached(_, _, _, _, _)
RECURSIVE ScanCache(_, _, _, _, _, _)

\* the position of a key in the cache, 0 when it has none
CacheIndex(cache, key) ==
  IF \E i \in 1..Len(cache) : cache[i].key = key
  THEN CHOOSE i \in 1..Len(cache) : cache[i].key = key
  ELSE 0

\* mutant: the List finds no cached element
cachedNever(cache, key) == 0

\* const cached = cache.get(key)
cached(cache, key) == CacheIndex(cache, key)

\* mutant: a child without state is bound to the first stream of the Map
childStateFirst(data, key, value) ==
  IF MapHas(data, key) THEN [subj |-> MapGet(data, key), init |-> Some(value[key])]
  ELSE IF data # << >>
  THEN [subj |-> data[1].subj, init |-> Some(value[data[1].key])]
  ELSE [subj |-> 0, init |-> None]

\* state: data.get(key) || EMPTY, with what a subscriber receives at once:
\* the current value of the BehaviorSubject, nothing from EMPTY
childState(data, key, value) ==
  IF MapHas(data, key) THEN [subj |-> MapGet(data, key), init |-> Some(value[key])]
  ELSE [subj |-> 0, init |-> None]

\* mutant: the Union renders a member for every value
unionRendersAlways(created) == TRUE

\* Rx.map after splitBy renders a member when the outer stream emits a group
unionRenders(created) == created

\* squash(p)(props), its pipeline subscribed to. init is what props.state
\* emits on subscription; w holds renderCount (rc) and the next subject id
\* (sc). Returns the instance and the counters.
Resolve(p, notify, init, w) ==
  IF isComposite(p)
  THEN LET g == NodeInst(p.grid, w.rc, constVoid, None)
           c == Resolve(p.child, notify, init, [w EXCEPT !.rc = @ + 1])
       IN [inst |-> [t |-> "composite", grid |-> g, child |-> c.inst,
                     notify |-> notify, last |-> init],
           w |-> c.w]
  ELSE IF isKnot(p)
  THEN LET i0 == [t |-> "knot", ff |-> FoldInit, rendered |-> FALSE,
                  grid |-> NoInst, kids |-> << >>, bind |-> << >>,
                  notify |-> notify, last |-> None]
       IN IF init.has THEN Push(p, i0, init.v, FALSE, w) ELSE [inst |-> i0, w |-> w]
  ELSE IF isList(p)
  THEN LET i0 == [t |-> "list", ff |-> FoldInit, cache |-> << >>,
                  notify |-> notify, last |-> None]
       IN IF init.has THEN Push(p, i0, init.v, FALSE, w) ELSE [inst |-> i0, w |-> w]
  ELSE IF isUnion(p)
  THEN LET i0 == [t |-> "union", sb |-> SplitInit, rendered |-> FALSE, key |-> "-",
                  member |-> NoInst, notify |-> notify, last |-> None]
       IN IF init.has THEN Push(p, i0, init.v, FALSE, w) ELSE [inst |-> i0, w |-> w]
  ELSE [inst |-> callNode(p.node, layersOf(p), w.rc, notify, init),
        w |-> [w EXCEPT !.rc = @ + 1]]

\* Knot: existing.next(value) reaches what is bound to the subject
PushKids(p, inst, pushed, shared, w) ==
  IF pushed = << >> THEN [inst |-> inst, w |-> w]
  ELSE LET e  == Head(pushed)
           i1 == IF inst.rendered /\ inst.bind[ROOT] = e.subj
                 THEN [inst EXCEPT !.grid.last = Some(mapState(inst.grid.pre, e.value))]
                 ELSE inst
           ks == IF inst.rendered
                 THEN SortKeys({k \in DOMAIN p.children : inst.bind[k] = e.subj})
                 ELSE << >>
       IN IF ks = << >>
          THEN PushKids(p, i1, Tail(pushed), shared, w)
          ELSE LET k == Head(ks)
                   c == Push(p.children[k], i1.kids[k], e.value, shared, w)
               IN PushKids(p, [i1 EXCEPT !.kids[k] = c.inst], Tail(pushed), shared, c.w)

\* Knot: Record.mapWithIndex over uiNode.children inside Rx.map
ResolveKids(p, keys, inst, data, value, w) ==
  IF keys = << >> THEN [inst |-> inst, w |-> w]
  ELSE LET k == Head(keys)
           b == childState(data, k, value)
           c == Resolve(p.children[k], makeNamespacedNode(k, inst.notify), b.init, w)
       IN ResolveKids(p, Tail(keys),
            [inst EXCEPT !.kids = (k :> c.inst) @@ @,
                         !.bind = (k :> b.subj) @@ @], data, value, c.w)

\* List: existing.next(value) reaches the cached element bound to the subject
PushCached(p, inst, pushed, shared, w) ==
  IF pushed = << >> THEN [inst |-> inst, w |-> w]
  ELSE LET e == Head(pushed)
           i == CacheIndex(inst.cache, e.key)
       IN IF i # 0 /\ inst.cache[i].subj = e.subj
          THEN LET c == Push(p.of, inst.cache[i].el, e.value, shared, w)
               IN PushCached(p, [inst EXCEPT !.cache[i].el = c.inst],
                             Tail(pushed), shared, c.w)
          ELSE PushCached(p, inst, Tail(pushed), shared, w)

\* List: the reducer of Rx.scan over the emitted Map: children is built in
\* the order of data from cached elements and from newly squashed ones
ScanCache(p, inst, data, val, children, w) ==
  IF data = << >> THEN [inst |-> [inst EXCEPT !.cache = children], w |-> w]
  ELSE LET key == data[1].key
           i   == cached(inst.cache, key)
       IN IF i # 0
          THEN ScanCache(p, inst, Tail(data), val,
                         Append(children, inst.cache[i]), w)
          ELSE LET c == Resolve(p.of, makeNamespacedNode(key, inst.notify),
                                Some(val[key]), w)
               IN ScanCache(p, inst, Tail(data), val,
                            Append(children, [key |-> key, subj |-> data[1].subj,
                                              el |-> c.inst]), c.w)

\* A value arrives on props.state of an instance. shared says the reducer
\* that built the value kept the objects it did not change: a collection
\* equal to the one received before is then the same object.
Push(p, inst, value, shared, w) ==
  IF isComposite(p)
  THEN LET c == Push(p.child, inst.child, value, shared, w)
       IN [inst |-> [inst EXCEPT !.child = c.inst, !.last = Some(value)], w |-> c.w]
  ELSE IF isKnot(p)
  THEN LET sameRef == inst.last.has /\ shared /\ inst.last.v = value
           r  == fromFoldable(inst.ff, sameRef, SortKeys(DOMAIN value), value, w.sc)
           i1 == [inst EXCEPT !.ff = r.st, !.last = Some(value)]
           q  == PushKids(p, i1, r.pushed, shared, [w EXCEPT !.sc = r.ctr])
       IN IF r.emit
          THEN LET k == ResolveKids(p, SortKeys(DOMAIN p.children),
                          [q.inst EXCEPT !.kids = << >>, !.bind = << >>],
                          r.st.out, value, q.w)
                   b == childState(r.st.out, ROOT, value)
               IN [inst |-> [k.inst EXCEPT
                               !.rendered = TRUE,
                               !.bind = (ROOT :> b.subj) @@ @,
                               !.grid = callNode(p.grid, layersOf(p), k.w.rc,
                                          makeNamespacedNode(ROOT, inst.notify),
                                          b.init)],
                   w |-> [k.w EXCEPT !.rc = @ + 1]]
          ELSE q
  ELSE IF isList(p)
  THEN LET sameRef == inst.last.has /\ shared /\ inst.last.v = value
           r  == fromFoldable(inst.ff, sameRef, value.ks, value.val, w.sc)
           i1 == [inst EXCEPT !.ff = r.st, !.last = Some(value)]
           q  == PushCached(p, i1, r.pushed, shared, [w EXCEPT !.sc = r.ctr])
       IN IF r.emit
          THEN ScanCache(p, q.inst, r.st.out, value.val, << >>, q.w)
          ELSE q
  ELSE IF isUnion(p)
  THEN LET s1      == next(inst.sb, value)
           created == Len(s1.groups) > Len(inst.sb.groups)
           i1      == [inst EXCEPT !.sb = s1, !.last = Some(value)]
       IN IF unionRenders(created)
          THEN LET key == s1.current.key
                   m   == Resolve(p.members[key],
                                  makeNamespacedNode(key, inst.notify),
                                  Some(value), w)
               IN [inst |-> [i1 EXCEPT !.sb = innerSubscribe(s1, s1.current.group),
                                       !.rendered = TRUE,
                                       !.key = key,
                                       !.member = m.inst],
                   w |-> m.w]
          ELSE IF inst.rendered
          THEN LET m == Push(p.members[inst.key], inst.member, value, shared, w)
               IN [inst |-> [i1 EXCEPT !.member = m.inst], w |-> m.w]
          ELSE [inst |-> i1, w |-> w]
  ELSE [inst |-> [inst EXCEPT !.last = Some(mapState(inst.pre, value))], w |-> w]

\* The rendered nodes, each with the keyed layers it sits below: a Knot
\* child, a List key and a Union member give a key, the Grid of a Knot sits
\* below ROOT, a Composite gives none.
RECURSIVE LiveNodes(_, _)
RECURSIVE LiveKids(_, _, _)
RECURSIVE LiveCache(_, _)
LiveKids(inst, keys, path) ==
  IF keys = << >> THEN << >>
  ELSE LiveNodes(inst.kids[Head(keys)], Append(path, Head(keys)))
         \o LiveKids(inst, Tail(keys), path)

LiveCache(cache, path) ==
  IF cache = << >> THEN << >>
  ELSE LiveNodes(cache[1].el, Append(path, cache[1].key))
         \o LiveCache(Tail(cache), path)

LiveNodes(inst, path) ==
  IF inst.t = "node" THEN <<[path |-> path, node |-> inst]>>
  ELSE IF inst.t = "composite"
  THEN <<[path |-> path, node |-> inst.grid]>> \o LiveNodes(inst.child, path)
  ELSE IF inst.t = "knot"
  THEN IF inst.rendered
       THEN LiveKids(inst, SortKeys(DOMAIN inst.kids), path)
              \o <<[path |-> Append(path, ROOT), node |-> inst.grid]>>
       ELSE << >>
  ELSE IF inst.t = "list" THEN LiveCache(inst.cache, path)
  ELSE IF inst.t = "union"
  THEN IF inst.rendered THEN LiveNodes(inst.member, Append(path, inst.key)) ELSE << >>
  ELSE << >>

(***************************************************************************)
(* Spec: mount(part, flow). The flow is arbitrary: it may emit any         *)
(* composed state of the part's shape at any time.                         *)
(***************************************************************************)
NodeVals == {1, 2}

ListKeys == {"k1", "k2"}

Actions == {[leaf |-> "click"]}

\* collections of a List with the Record foldable: keys in ascending order
RecordColls(elems) ==
  UNION {{[ks |-> SortKeys(K), val |-> v] : v \in [K -> elems]} : K \in SUBSET ListKeys}

\* collections of a List with a Map foldable: keys in insertion order
MapColls(elems) ==
  UNION {{[ks |-> ks, val |-> v] : v \in [Range(ks) -> elems]} :
           ks \in {q \in UNION {[1..n -> ListKeys] : n \in 0..Cardinality(ListKeys)} :
                     \A i, j \in 1..Len(q) : i # j => q[i] # q[j]}}

Tree1 == KnotP("G", [a |-> NodeP("A"), b |-> NodeP("B")])

Tree2 == KnotP("H", [c |-> ListP("Record",
                             UnionP("kind", [one |-> NodeP("One"), two |-> NodeP("Two")]))])

Tree3 == UnionP("kind", [one |-> NodeP("One"), two |-> KnotP("H", [x |-> NodeP("X")])])

Tree4 == ListP("Map", CompositeP("CG", NodeP("E")))

\* a Knot whose Grid has the slot root: Knot.make takes any slot names
Tree5 == KnotP("G", [root |-> NodeP("R")])

TreeNames == {"Tree1", "Tree2", "Tree3", "Tree4", "Tree5"}

TreeOf(name) ==
  CASE name = "Tree1" -> Tree1
    [] name = "Tree2" -> Tree2
    [] name = "Tree3" -> Tree3
    [] name = "Tree4" -> Tree4
    [] name = "Tree5" -> Tree5

\* the composed states the flow of each tree may emit; the child b of Tree1
\* may be without state
StatesOf(name) ==
  CASE name = "Tree1" ->
         {[root |-> r, a |-> x] : r \in NodeVals, x \in NodeVals}
           \cup {[root |-> r, a |-> x, b |-> y] :
                   r \in NodeVals, x \in NodeVals, y \in NodeVals}
    [] name = "Tree2" ->
         {[c |-> l] : l \in RecordColls({[kind |-> "one", v |-> 1],
                                         [kind |-> "two", v |-> 1]})}
    [] name = "Tree3" ->
         {[kind |-> "one", v |-> x] : x \in NodeVals}
           \cup {[kind |-> "two", x |-> x] : x \in NodeVals}
    [] name = "Tree4" -> MapColls(NodeVals)
    [] name = "Tree5" -> {[root |-> r] : r \in NodeVals}

\* mount: squash(uiNode) is invoked with the Subject's next as notify and
\* the state stream of the flow, which has not emitted yet
mount(p) == Resolve(p, rootNotify, None, [rc |-> 0, sc |-> 1])

\* the flow emits a composed state
Deliver ==
  /\ stateN < MaxDeliver
  /\ \E s \in StatesOf(part), shared \in BOOLEAN :
       LET r == Push(TreeOf(part), tree, s, shared, ids)
       IN /\ tree' = r.inst
          /\ ids' = r.w
          /\ cur' = Some(s)
  /\ stateN' = stateN + 1
  /\ UNCHANGED <<part, actions, notified>>

\* a rendered node calls props.notify; the constVoid of a Composite's grid
\* does nothing
Notify ==
  /\ Len(actions) < MaxNotify
  /\ LET live == LiveNodes(tree, << >>)
     IN \E i \in 1..Len(live), a \in Actions :
          /\ ~live[i].node.notify.void
          /\ actions' = Append(actions, applyNotify(live[i].node.notify.keys, a))
          /\ notified' = Append(notified, [path |-> live[i].path, a |-> a])
  /\ UNCHANGED <<part, tree, ids, cur, stateN>>

TreeVarsInit ==
  /\ part = "Tree1"
  /\ tree = NoInst
  /\ ids = [rc |-> 0, sc |-> 1]
  /\ cur = None
  /\ stateN = 0
  /\ actions = << >>
  /\ notified = << >>

(***************************************************************************)
(* ui.ts: patch / changeDescendant                                         *)
(*                                                                         *)
(* Parts are objects with identity here: the heap is the sequence of all   *)
(* objects, an object is referred to by its position. A Knot, Composite,   *)
(* List and Union object holds the references of its children; a Grid is a *)
(* function and is held by name. undefined is the reference 0.             *)
(***************************************************************************)
Undefined == 0

\* the part record p as objects on heap h: [heap, id]
RECURSIVE Alloc(_, _)
RECURSIVE AllocAll(_, _, _, _)
AllocAll(rec, keys, h, ids_) ==
  IF keys = << >> THEN [heap |-> h, ids |-> ids_]
  ELSE LET r == Alloc(rec[Head(keys)], h)
       IN AllocAll(rec, Tail(keys), r.heap, (Head(keys) :> r.id) @@ ids_)

Alloc(p, h) ==
  IF isComposite(p)
  THEN LET c == Alloc(p.child, h)
       IN [heap |-> Append(c.heap, [grid |-> p.grid, child |-> c.id]),
           id |-> Len(c.heap) + 1]
  ELSE IF isKnot(p)
  THEN LET c == AllocAll(p.children, SortKeys(DOMAIN p.children), h, << >>)
       IN [heap |-> Append(c.heap, [grid |-> p.grid, children |-> c.ids]),
           id |-> Len(c.heap) + 1]
  ELSE IF isList(p)
  THEN LET c == Alloc(p.of, h)
       IN [heap |-> Append(c.heap, [foldable |-> p.foldable, of |-> c.id]),
           id |-> Len(c.heap) + 1]
  ELSE IF isUnion(p)
  THEN LET c == AllocAll(p.members, SortKeys(DOMAIN p.members), h, << >>)
       IN [heap |-> Append(c.heap, [tag |-> p.tag, members |-> c.ids]),
           id |-> Len(c.heap) + 1]
  ELSE [heap |-> Append(h, p), id |-> Len(h) + 1]

\* the replacement functions f given to patch
PatchFns == {"replace", "wrap", "keep"}

\* f(current): "replace" returns a new Node, "wrap" a new Composite around
\* current, "keep" returns current itself
applyF(h, current, f) ==
  IF f = "replace"
  THEN [heap |-> Append(h, NodeP("N")), id |-> Len(h) + 1,
        calls |-> <<current>>, thrown |-> FALSE]
  ELSE IF f = "wrap"
  THEN [heap |-> Append(h, [grid |-> "W", child |-> current]), id |-> Len(h) + 1,
        calls |-> <<current>>, thrown |-> FALSE]
  ELSE [heap |-> h, id |-> current, calls |-> <<current>>, thrown |-> FALSE]

\* an object literal: a new object after the result r of the recursive call
newObject(r, obj) == [r EXCEPT !.heap = Append(@, obj), !.id = Len(r.heap) + 1]

\* mutant: the child is assigned into the children of the parent itself
withChildInPlace(r, parent, field, head) ==
  [r EXCEPT !.heap[parent][field][head] = r.id, !.id = parent]

\* { grid: parent.grid, children: { ...parent.children, [head]: ... } } and
\* { tag: parent.tag, members: { ...parent.members, [head]: ... } }
withChild(r, parent, field, head) ==
  LET o == r.heap[parent]
  IN newObject(r, [o EXCEPT ![field] = (head :> r.id) @@ @])

\* mutant: a Composite and a List consume a path segment too
passPathTail(path) == Tail(path)

\* the path handed on below a Composite and below a List
passPath(path) == path

\* parent.children[head], parent.members[head]
property(rec, head) == IF head \in DOMAIN rec THEN rec[head] ELSE Undefined

\* changeDescendant(parent, path, f) on heap h. Returns the heap with the
\* objects created, the reference returned, the arguments f was called with
\* and whether a TypeError was thrown ('child' in undefined).
RECURSIVE changeDescendant(_, _, _, _)
changeDescendant(h, parent, path, f) ==
  IF parent = Undefined
  THEN [heap |-> h, id |-> Undefined, calls |-> << >>, thrown |-> TRUE]
  ELSE LET o == h[parent]
       IN IF isComposite(o) /\ Len(path) > 0
          THEN LET r == changeDescendant(h, o.child, passPath(path), f)
               IN IF r.thrown THEN r
                  ELSE newObject(r, [grid |-> o.grid, child |-> r.id])
          ELSE IF isKnot(o) /\ Len(path) > 0
          THEN LET r == changeDescendant(h, property(o.children, Head(path)),
                                         Tail(path), f)
               IN IF r.thrown THEN r ELSE withChild(r, parent, "children", Head(path))
          ELSE IF isList(o) /\ Len(path) > 0
          THEN LET r == changeDescendant(h, o.of, passPath(path), f)
               IN IF r.thrown THEN r
                  ELSE newObject(r, [foldable |-> o.foldable, of |-> r.id])
          ELSE IF isUnion(o) /\ Len(path) > 0
          THEN LET r == changeDescendant(h, property(o.members, Head(path)),
                                         Tail(path), f)
               IN IF r.thrown THEN r ELSE withChild(r, parent, "members", Head(path))
          ELSE applyF(h, parent, f)

\* patch(...path)(f)(root)
patch(h, root, path, f) == changeDescendant(h, root, path, f)

(***************************************************************************)
(* SpecPatch: one tree, any path, any replacement, patched twice at most   *)
(***************************************************************************)
MaxPathLen == 2

MaxPatches == 2

PatchKeys == {"a", "b", "x", "two"}

PatchPaths == UNION {[1..n -> PatchKeys] : n \in 0..MaxPathLen}

PatchTree1 == KnotP("G", [a |-> NodeP("A"), b |-> KnotP("H", [x |-> NodeP("X"), a |-> NodeP("C")])])

PatchTree2 == CompositeP("CG", KnotP("G", [a |-> NodeP("A"), b |-> ListP("Array", NodeP("B"))]))

PatchTree3 == ListP("Record", KnotP("H", [x |-> NodeP("X"), a |-> CompositeP("CG", NodeP("E"))]))

PatchTree4 == UnionP("kind", [one |-> NodeP("One"), two |-> KnotP("H", [x |-> NodeP("X")])])

PatchTrees == <<PatchTree1, PatchTree2, PatchTree3, PatchTree4>>

PatchVarsInit ==
  /\ pHeap = Alloc(PatchTree1, << >>).heap
  /\ pRoot = Alloc(PatchTree1, << >>).id
  /\ pIn = [heap |-> << >>, root |-> Undefined, path |-> << >>, f |-> "keep"]
  /\ pCalls = << >>
  /\ pThrown = FALSE
  /\ pN = 0

PatchInit ==
  /\ \E i \in 1..Len(PatchTrees) :
       /\ pHeap = Alloc(PatchTrees[i], << >>).heap
       /\ pRoot = Alloc(PatchTrees[i], << >>).id
  /\ pIn = [heap |-> << >>, root |-> Undefined, path |-> << >>, f |-> "keep"]
  /\ pCalls = << >>
  /\ pThrown = FALSE
  /\ pN = 0

\* root = patch(...path)(f)(root); pIn keeps the call and the heap before it
Patch ==
  /\ pN < MaxPatches
  /\ ~pThrown
  /\ \E path \in PatchPaths, f \in PatchFns :
       LET r == patch(pHeap, pRoot, path, f)
       IN /\ pIn' = [heap |-> pHeap, root |-> pRoot, path |-> path, f |-> f]
          /\ pHeap' = r.heap
          /\ pRoot' = IF r.thrown THEN pRoot ELSE r.id
          /\ pCalls' = r.calls
          /\ pThrown' = r.thrown
  /\ pN' = pN + 1

patchVars == <<pHeap, pRoot, pIn, pCalls, pThrown, pN>>

(***************************************************************************)
(* SpecPromap: a part under promap and the part it is to behave as,        *)
(* mounted with the same flow and notified by the same nodes.              *)
(*   kind identity: promap(part, identity, identity)  and  part            *)
(*   kind compose:  promap(promap(part, f1, g1), f2, g2)  and              *)
(*                  promap(part, s => f1(f2(s)), a => g2(g1(a)))           *)
(*   kind template: promap(List(of), f1, g1)  and  the List of the         *)
(*                  template with the adapters applied to it               *)
(***************************************************************************)
MaxPromapDeliver == 2

MaxPromapNotify == 1

PromapBases == {"Node", "Knot", "List"}

\* the Lists of the kind template, one for each kind of template
TemplateBases == {"List", "ListOfKnot", "ListOfComposite"}

PromapBase(name) ==
  CASE name = "Node" -> NodeP("A")
    [] name = "Knot" -> KnotP("G", [a |-> NodeP("A")])
    [] name = "List" -> ListP("Record", NodeP("E"))
    [] name = "ListOfKnot" -> ListP("Record", KnotP("G", [a |-> NodeP("A")]))
    [] name = "ListOfComposite" -> ListP("Record", CompositeP("CG", NodeP("E")))

PromapStates(name) ==
  CASE name = "Node" -> NodeVals
    [] name = "Knot" -> {[root |-> r, a |-> x] : r \in NodeVals, x \in NodeVals}
    [] name = "List" -> RecordColls(NodeVals)
    [] name = "ListOfKnot" -> RecordColls({[root |-> r, a |-> 1] : r \in NodeVals})
    [] name = "ListOfComposite" -> RecordColls(NodeVals)

PromapCases ==
  {[base |-> b, kind |-> "identity", f1 |-> "f1", g1 |-> "g1", f2 |-> "f1", g2 |-> "g1"] :
     b \in PromapBases}
  \cup {[base |-> b, kind |-> "compose", f1 |-> f1, g1 |-> g1, f2 |-> f2, g2 |-> g2] :
          b \in PromapBases, f1 \in StateFns, g1 \in ActionFns,
          f2 \in StateFns, g2 \in ActionFns}
  \cup {[base |-> b, kind |-> "template", f1 |-> "f1", g1 |-> "g1", f2 |-> "f1", g2 |-> "g1"] :
          b \in TemplateBases}

\* the template of with the adapters applied: to the wrapped child of a
\* Composite, to the part itself otherwise
adaptedTemplate(of, contramapState, mapAction) ==
  IF isComposite(of)
  THEN CompositeP(of.grid, promap(of.child, contramapState, mapAction))
  ELSE promap(of, contramapState, mapAction)

PromapLeft(c) ==
  IF c.kind = "identity" THEN promap(PromapBase(c.base), << >>, << >>)
  ELSE IF c.kind = "template" THEN promap(PromapBase(c.base), <<c.f1>>, <<c.g1>>)
  ELSE promap(promap(PromapBase(c.base), <<c.f1>>, <<c.g1>>), <<c.f2>>, <<c.g2>>)

PromapRight(c) ==
  IF c.kind = "identity" THEN PromapBase(c.base)
  ELSE IF c.kind = "template"
  THEN ListP(PromapBase(c.base).foldable,
             adaptedTemplate(PromapBase(c.base).of, <<c.f1>>, <<c.g1>>))
  ELSE promap(PromapBase(c.base), <<c.f1, c.f2>>, <<c.g2, c.g1>>)

PromapMounted(c) ==
  /\ pmCase = c
  /\ pmA = mount(PromapLeft(c)).inst
  /\ pmIdsA = mount(PromapLeft(c)).w
  /\ pmB = mount(PromapRight(c)).inst
  /\ pmIdsB = mount(PromapRight(c)).w
  /\ pmCur = None
  /\ pmN = 0
  /\ pmActsA = << >>
  /\ pmActsB = << >>
  /\ pmNotified = << >>

PromapVarsInit ==
  /\ pmCase = [base |-> "Node", kind |-> "identity",
               f1 |-> "f1", g1 |-> "g1", f2 |-> "f1", g2 |-> "g1"]
  /\ pmA = NoInst
  /\ pmB = NoInst
  /\ pmIdsA = [rc |-> 0, sc |-> 1]
  /\ pmIdsB = [rc |-> 0, sc |-> 1]
  /\ pmCur = None
  /\ pmN = 0
  /\ pmActsA = << >>
  /\ pmActsB = << >>
  /\ pmNotified = << >>

PromapInit == \E c \in PromapCases : PromapMounted(c)

\* both flows emit the same state
PromapDeliver ==
  /\ pmN < MaxPromapDeliver
  /\ \E s \in PromapStates(pmCase.base), shared \in BOOLEAN :
       LET a == Push(PromapLeft(pmCase), pmA, s, shared, pmIdsA)
           b == Push(PromapRight(pmCase), pmB, s, shared, pmIdsB)
       IN /\ pmA' = a.inst
          /\ pmIdsA' = a.w
          /\ pmB' = b.inst
          /\ pmIdsB' = b.w
          /\ pmCur' = Some(s)
  /\ pmN' = pmN + 1
  /\ UNCHANGED <<pmCase, pmActsA, pmActsB, pmNotified>>

\* what the flow has received after a node called its notify with a
flowReceives(acts, notify, a) ==
  IF notify.void THEN acts ELSE Append(acts, applyNotify(notify.keys, a))

\* the same rendered node of both mounts calls props.notify
PromapNotify ==
  /\ Len(pmNotified) < MaxPromapNotify
  /\ LET liveA == LiveNodes(pmA, << >>)
         liveB == LiveNodes(pmB, << >>)
     IN \E i \in 1..Len(liveA), j \in 1..Len(liveB), a \in Actions :
          /\ liveA[i].path = liveB[j].path
          /\ liveA[i].node.name = liveB[j].node.name
          /\ pmActsA' = flowReceives(pmActsA, liveA[i].node.notify, a)
          /\ pmActsB' = flowReceives(pmActsB, liveB[j].node.notify, a)
          /\ pmNotified' = Append(pmNotified, [path |-> liveA[i].path, a |-> a])
  /\ UNCHANGED <<pmCase, pmA, pmB, pmIdsA, pmIdsB, pmCur, pmN>>

promapVars ==
  <<pmCase, pmA, pmB, pmIdsA, pmIdsB, pmCur, pmN, pmActsA, pmActsB, pmNotified>>

(***************************************************************************)
(* ui.ts: mount, the state broadcast                                       *)
(*                                                                         *)
(*   state: pipe(uiFlow(action), Rx.publishReplay(1), Rx.refCount())       *)
(*                                                                         *)
(* rxjs 6.5.3: publishReplay(1) creates one ReplaySubject(1) and is        *)
(* multicast(() => subject): every connection multicasts into that         *)
(* subject. refCount subscribes the consumer to the subject, which replays *)
(* its _events, and then connects when there is no connection; when the    *)
(* last consumer unsubscribes it unsubscribes the connection.              *)
(***************************************************************************)
MaxConsumers == 2

MaxFlowEmits == 3

MaxSubscribes == 3

MaxMountNotify == 2

Consumers == 1..MaxConsumers

\* ReplaySubject(1).next(v): _events keeps the last value
publishReplay(buffer, v) == <<v>>

\* getSubject() of a connection: the subjectFactory of publishReplay returns
\* the one ReplaySubject, with the _events it holds
subjectFactory(buffer) == buffer

\* mutant: every subscriber connects to the source
connectAlways(connected) == TRUE

\* refCount: connect() makes a connection when there is none
refCount(connected) == ~connected

MountVarsInit ==
  /\ mSubs = {}
  /\ mSeen = [c \in Consumers |-> << >>]
  /\ mBuffer = << >>
  /\ mFlowSubs = 0
  /\ mFlowIn = << >>
  /\ mNotified = << >>
  /\ mN = 0
  /\ mSubN = 0
  /\ mZeroAt = 0

MountInit == MountVarsInit

\* a consumer subscribes to props.state
MountSubscribe ==
  /\ mSubN < MaxSubscribes
  /\ \E c \in Consumers \ mSubs :
       LET subject == IF mFlowSubs = 0 THEN subjectFactory(mBuffer) ELSE mBuffer
       IN /\ mSubs' = mSubs \cup {c}
          /\ mSeen' = [mSeen EXCEPT ![c] = subject]
          /\ mBuffer' = subject
          /\ mFlowSubs' = IF refCount(mFlowSubs > 0) THEN mFlowSubs + 1 ELSE mFlowSubs
  /\ mSubN' = mSubN + 1
  /\ UNCHANGED <<mFlowIn, mNotified, mN, mZeroAt>>

\* a consumer unsubscribes; the last one unsubscribes the connection
MountUnsubscribe ==
  /\ \E c \in mSubs :
       /\ mSubs' = mSubs \ {c}
       /\ mSeen' = [mSeen EXCEPT ![c] = << >>]
       /\ mFlowSubs' = IF mSubs = {c} THEN 0 ELSE mFlowSubs
       /\ mZeroAt' = IF mSubs = {c} THEN mN ELSE mZeroAt
  /\ UNCHANGED <<mBuffer, mFlowIn, mNotified, mN, mSubN>>

\* the subscribed flow emits its next state
MountFlowEmit ==
  /\ mN < MaxFlowEmits
  /\ mFlowSubs > 0
  /\ mN' = mN + 1
  /\ mBuffer' = publishReplay(mBuffer, mN + 1)
  /\ mSeen' = [c \in Consumers |-> IF c \in mSubs THEN Append(mSeen[c], mN + 1)
                                   ELSE mSeen[c]]
  /\ UNCHANGED <<mSubs, mFlowSubs, mFlowIn, mNotified, mSubN, mZeroAt>>

\* a rendered consumer calls notify: action.next(a) reaches every
\* subscription the flow made to the action Subject
MountNotify ==
  /\ Len(mNotified) < MaxMountNotify
  /\ mSubs # {}
  /\ \E a \in Actions :
       /\ mNotified' = Append(mNotified, a)
       /\ mFlowIn' = mFlowIn \o [i \in 1..mFlowSubs |-> a]
  /\ UNCHANGED <<mSubs, mSeen, mBuffer, mFlowSubs, mN, mSubN, mZeroAt>>

mountVars == <<mSubs, mSeen, mBuffer, mFlowSubs, mFlowIn, mNotified, mN, mSubN, mZeroAt>>

(***************************************************************************)
(* flow.ts: composeKnot                                                    *)
(*                                                                         *)
(* The child flows are of three kinds: "startWith" emits 0 when subscribed *)
(* and then the number of actions it received after each action (like      *)
(* flow(Rx.mapTo(..), Rx.startWith(..)) of the tests), "lazy" emits only   *)
(* after actions, "EMPTY" is () => EMPTY: it completes when subscribed,    *)
(* emits nothing and does not subscribe to its actions.                    *)
(* combineLatest is that of rxjs 6.5.3.                                    *)
(***************************************************************************)
MaxKnotActions == 3

KnotFlowKinds == {"startWith", "lazy", "EMPTY"}

\* Object.keys(flowComposition) of the compositions
KnotFlowKeyLists == {<<"a", "b">>, <<"a", "b", "root">>}

KnotFlowComps ==
  UNION {{[keys |-> ks, kind |-> f] : f \in [Range(ks) -> KnotFlowKinds]} :
           ks \in KnotFlowKeyLists}

KnotActionKeys == {"a", "b", "root"}

KnotActions == {"click", "press"}

\* mutant: every child flow is handed every action
filterAny(a, key) == TRUE

\* Rx.filter(a => a.key === key)
filter(a, key) == a.key = key

\* s.reduce((a, v) => ({ ...a, ...v })) over the values held of
\* { [key]: state }
reduce(keys, values) ==
  [k \in {j \in Range(keys) : values[j].has} |-> values[k].v]

\* mutant: combineLatest emits with the values it has
toRespondNone(cl, key) == 0

\* CombineLatestSubscriber.notifyNext: what is left to respond after a
\* value of key
toRespond(cl, key) ==
  IF cl.toRespond = 0 THEN 0
  ELSE IF ~cl.values[key].has THEN cl.toRespond - 1
  ELSE cl.toRespond

\* CombineLatestSubscriber.notifyNext followed by the Rx.map of composeKnot
notifyNext(cl, keys, key, v) ==
  LET tr   == toRespond(cl, key)
      vals == [cl.values EXCEPT ![key] = Some(v)]
  IN [cl EXCEPT !.values = vals,
                !.toRespond = tr,
                !.out = IF tr = 0 THEN Append(@, reduce(keys, vals)) ELSE @]

\* CombineLatestSubscriber.notifyComplete
notifyComplete(cl) ==
  [cl EXCEPT !.active = @ - 1, !.done = (cl.active - 1 = 0)]

\* combineLatest(...) subscribed: it subscribes to the child flows in the
\* order of keys; st is [cl, emits]
RECURSIVE combineLatest(_, _, _)
combineLatest(comp, keys, st) ==
  IF keys = << >> THEN st
  ELSE LET k == Head(keys)
       IN combineLatest(comp, Tail(keys),
            IF comp.kind[k] = "startWith"
            THEN [cl |-> notifyNext(st.cl, comp.keys, k, 0),
                  emits |-> Append(st.emits, [key |-> k, v |-> 0])]
            ELSE IF comp.kind[k] = "EMPTY"
            THEN [st EXCEPT !.cl = notifyComplete(@)]
            ELSE st)

\* actions.next(a): the filter and map of every subscribed child flow in the
\* order of keys, the flow's new state and combineLatest; st is
\* [cl, in, emits]
RECURSIVE composeKnot(_, _, _, _)
composeKnot(comp, keys, a, st) ==
  IF keys = << >> THEN st
  ELSE LET k == Head(keys)
       IN composeKnot(comp, Tail(keys), a,
            IF comp.kind[k] # "EMPTY" /\ filter(a, k)
            THEN LET n == Len(st.in[k]) + 1
                 IN [cl |-> notifyNext(st.cl, comp.keys, k, n),
                     in |-> [st.in EXCEPT ![k] = Append(@, a.action)],
                     emits |-> Append(st.emits, [key |-> k, v |-> n])]
            ELSE st)

NoCombineLatest(comp) ==
  [values |-> [k \in Range(comp.keys) |-> None],
   toRespond |-> Len(comp.keys),
   active |-> Len(comp.keys),
   out |-> << >>,
   done |-> FALSE]

KnotFlowVarsInit ==
  /\ kfComp = [keys |-> <<"a", "b">>, kind |-> [k \in {"a", "b"} |-> "startWith"]]
  /\ kfSubscribed = FALSE
  /\ kfCl = NoCombineLatest(kfComp)
  /\ kfIn = [k \in {"a", "b"} |-> << >>]
  /\ kfEmits = << >>
  /\ kfSent = << >>

KnotFlowInit ==
  /\ kfComp \in KnotFlowComps
  /\ kfSubscribed = FALSE
  /\ kfCl = NoCombineLatest(kfComp)
  /\ kfIn = [k \in Range(kfComp.keys) |-> << >>]
  /\ kfEmits = << >>
  /\ kfSent = << >>

\* the composed flow is given the action stream and its state is subscribed
KnotFlowSubscribe ==
  /\ ~kfSubscribed
  /\ kfSubscribed' = TRUE
  /\ LET r == combineLatest(kfComp, kfComp.keys, [cl |-> kfCl, emits |-> kfEmits])
     IN /\ kfCl' = r.cl
        /\ kfEmits' = r.emits
  /\ UNCHANGED <<kfComp, kfIn, kfSent>>

\* the action stream emits { key, action }
KnotFlowAction ==
  /\ kfSubscribed
  /\ Len(kfSent) < MaxKnotActions
  /\ \E key \in KnotActionKeys, action \in KnotActions :
       LET a == [key |-> key, action |-> action]
           r == composeKnot(kfComp, kfComp.keys, a,
                            [cl |-> kfCl, in |-> kfIn, emits |-> kfEmits])
       IN /\ kfSent' = Append(kfSent, a)
          /\ kfCl' = r.cl
          /\ kfIn' = r.in
          /\ kfEmits' = r.emits
  /\ UNCHANGED <<kfComp, kfSubscribed>>

kfVars == <<kfComp, kfSubscribed, kfCl, kfIn, kfEmits, kfSent>>

(***************************************************************************)
(* flow.ts: composeUnion                                                   *)
(*                                                                         *)
(* actions is a Subject (that of mount): next(a) goes through a copy of    *)
(* the observers in the order they subscribed, and a subscriber that was   *)
(* unsubscribed meanwhile drops the value (rxjs 6.5.3). The kindSelector   *)
(* is any function of the actions: for every action it emits a key or      *)
(* nothing; with startWith it emits a key before it subscribes to the      *)
(* actions. A member flow emits the state 0 when subscribed, then          *)
(* subscribes to its actions and emits the number of actions it received   *)
(* after each (flow(Rx.mapTo(..), Rx.startWith(..)) of the tests).         *)
(***************************************************************************)
MaxUnionActions == 3

UnionKeys == {"one", "two"}

UnionTag == "kind"

Selector == [who |-> "selector"]

Member(key, id) == [who |-> "member", key |-> key, id |-> id]

\* mutant: the tag is that of the first member
addTagFirst(state, tag, key) ==
  [k \in DOMAIN state \cup {tag} |-> IF k = tag THEN "one" ELSE state[k]]

\* Rx.map(state => ({ ...state, [tag]: key }))
addTag(state, tag, key) ==
  [k \in DOMAIN state \cup {tag} |-> IF k = tag THEN key ELSE state[k]]

\* the state a member flow emits after n actions
memberState(n) == [text |-> n]

\* mutant: the inner subscription is kept (mergeMap)
unsubscribeInnerNever(obs, active) == obs

\* switchMap: innerSubscription.unsubscribe() takes the member flow's
\* subscriber off the observers of the Subject
unsubscribeInner(obs, active) ==
  IF active.has
  THEN SelectSeq(obs, LAMBDA o : o # Member(active.v.key, active.v.id))
  ELSE obs

\* the project function of switchMap for keyRecord { [tag]: key }: the
\* member flow of key is subscribed; st is [obs, active, nextId, in, out, selIn]
switchMap(st, key) ==
  LET id  == st.nextId
      act == Some([key |-> key, id |-> id])
  IN [st EXCEPT
        !.obs = Append(unsubscribeInner(st.obs, st.active), Member(key, id)),
        !.active = act,
        !.nextId = id + 1,
        !.out = Append(@, [state |-> addTag(memberState(0), UnionTag, key),
                           from |-> [key |-> key, id |-> id],
                           active |-> act])]

\* the actions the subscription id of a member flow has received
Received(in, id) == Len(SelectSeq(in, LAMBDA e : e.id = id))

\* actions.next(a) with the key sel the kindSelector answers with ("-": it
\* emits nothing); n is the number of a in ufSent
RECURSIVE composeUnion(_, _, _, _, _)
composeUnion(copy, a, n, sel, st) ==
  IF copy = << >> THEN st
  ELSE LET o == Head(copy)
       IN composeUnion(Tail(copy), a, n, sel,
            IF o = Selector
            THEN LET s1 == [st EXCEPT !.selIn = Append(@, n)]
                 IN IF sel = "-" THEN s1 ELSE switchMap(s1, sel)
            ELSE IF (\E i \in 1..Len(st.obs) : st.obs[i] = o) /\ filter(a, o.key)
            THEN LET c == Received(st.in, o.id) + 1
                 IN [st EXCEPT
                       !.in = Append(@, [key |-> o.key, id |-> o.id,
                                         action |-> a.action, n |-> n,
                                         active |-> st.active]),
                       !.out = Append(@, [state |-> addTag(memberState(c), UnionTag, o.key),
                                          from |-> [key |-> o.key, id |-> o.id],
                                          active |-> st.active])]
            ELSE st)

UnionFlowVarsInit ==
  /\ ufSel = [startWith |-> TRUE, key |-> "one"]
  /\ ufSubscribed = FALSE
  /\ ufObs = << >>
  /\ ufActive = None
  /\ ufNextId = 1
  /\ ufSent = << >>
  /\ ufSelIn = << >>
  /\ ufIn = << >>
  /\ ufOut = << >>

UnionFlowInit ==
  /\ ufSel \in [startWith : BOOLEAN, key : UnionKeys]
  /\ ufSubscribed = FALSE
  /\ ufObs = << >>
  /\ ufActive = None
  /\ ufNextId = 1
  /\ ufSent = << >>
  /\ ufSelIn = << >>
  /\ ufIn = << >>
  /\ ufOut = << >>

\* the composed flow is subscribed: kindSelector(actions) emits its first key
\* if it starts with one, then subscribes to the actions
UnionFlowSubscribe ==
  /\ ~ufSubscribed
  /\ ufSubscribed' = TRUE
  /\ LET st == [obs |-> ufObs, active |-> ufActive, nextId |-> ufNextId,
                in |-> ufIn, out |-> ufOut, selIn |-> ufSelIn]
         r  == IF ufSel.startWith THEN switchMap(st, ufSel.key) ELSE st
     IN /\ ufObs' = Append(r.obs, Selector)
        /\ ufActive' = r.active
        /\ ufNextId' = r.nextId
        /\ ufOut' = r.out
  /\ UNCHANGED <<ufSel, ufSent, ufSelIn, ufIn>>

\* the action Subject emits { key, action }
UnionFlowAction ==
  /\ ufSubscribed
  /\ Len(ufSent) < MaxUnionActions
  /\ \E key \in UnionKeys, sel \in UnionKeys \cup {"-"} :
       LET a == [key |-> key, action |-> "click"]
           r == composeUnion(ufObs, a, Len(ufSent) + 1, sel,
                  [obs |-> ufObs, active |-> ufActive, nextId |-> ufNextId,
                   in |-> ufIn, out |-> ufOut, selIn |-> ufSelIn])
       IN /\ ufSent' = Append(ufSent, [key |-> key, action |-> "click",
                                       active |-> ufActive])
          /\ ufObs' = r.obs
          /\ ufActive' = r.active
          /\ ufNextId' = r.nextId
          /\ ufIn' = r.in
          /\ ufOut' = r.out
          /\ ufSelIn' = r.selIn
  /\ UNCHANGED <<ufSel, ufSubscribed>>

ufVars == <<ufSel, ufSubscribed, ufObs, ufActive, ufNextId, ufSent, ufSelIn, ufIn, ufOut>>

(***************************************************************************)
(* flow.ts: fromSideEffect, patchState, extendActions, patch,              *)
(* replaceActions                                                          *)
(*                                                                         *)
(* The original flow is that of the tests,                                 *)
(* flow(Rx.tap(count), Rx.mapTo(..), Rx.startWith(..)): it subscribes to   *)
(* its actions once, emits the state 0 when subscribed and the number of   *)
(* actions it observed after each. contramapActions is a pipeline that     *)
(* observes an action and hands it on marked, mapState adds 10 to a state. *)
(* The state source of fromSideEffect is a plain value, emitted once when  *)
(* subscribed, or an Observable that emits at any time.                    *)
(***************************************************************************)
MaxFlowActions == 3

MaxSourceEmits == 2

FlowEditKinds == {"fromSideEffect", "patchState", "extendActions", "patch", "replaceActions"}

FlowActions == {"a", "b"}

\* contramapActions applied to one action
contramapActions(a) == [p |-> a]

\* mapState applied to one state
mapStateOf(s) == s + 10

\* mutant: the actions go on
switchMapPass(as) == as

\* Rx.switchMap(() => NEVER): nothing goes on
switchMapNever(as) == << >>

\* toObservable(state) subscribed: of(value) emits the value, an Observable
\* nothing yet
toObservable(source) == IF source = "value" THEN <<0>> ELSE << >>

\* mutant: the original flow is handed the action twice
extendActionsTwice(a) == <<contramapActions(a), contramapActions(a)>>

\* extendActions: R.local(contramapActions), what the original flow is
\* handed for the incoming action a
extendActions(a) == <<contramapActions(a)>>

\* mutant: the original flow still observes the actions
replaceActionsKeep(a) == <<contramapActions(a)>>

\* replaceActions: R.local(flow(contramapActions, Rx.switchMap(() => NEVER)))
replaceActions(a) == switchMapNever(<<contramapActions(a)>>)

\* patchState: R.map(mapState), the states out for the states of the
\* original flow
patchState(states) == [i \in 1..Len(states) |-> mapStateOf(states[i])]

\* the states the original flow emits for the actions as it is handed, after
\* n it observed before
originalFlow(n, as) == [i \in 1..Len(as) |-> n + i]

\* the action pipeline of the kind: [pIn, flowIn] for the incoming action a
actionPipeline(kind, a) ==
  CASE kind = "fromSideEffect" -> [pIn |-> <<a>>, flowIn |-> switchMapNever(<<a>>)]
    [] kind = "patchState"     -> [pIn |-> << >>, flowIn |-> <<a>>]
    [] kind = "extendActions"  -> [pIn |-> <<a>>, flowIn |-> extendActions(a)]
    [] kind = "patch"          -> [pIn |-> <<a>>, flowIn |-> extendActions(a)]
    [] kind = "replaceActions" -> [pIn |-> <<a>>, flowIn |-> replaceActions(a)]

\* the state pipeline of the kind
statePipeline(kind, states) ==
  IF kind \in {"patchState", "patch"} THEN patchState(states) ELSE states

FlowEditVarsInit ==
  /\ feKind = "patch"
  /\ feSource = "value"
  /\ feSubscribed = FALSE
  /\ feSent = << >>
  /\ fePIn = << >>
  /\ feFlowIn = << >>
  /\ feOrig = << >>
  /\ feOut = << >>

FlowEditInit ==
  /\ feKind \in FlowEditKinds
  /\ feSource \in {"value", "observable"}
  /\ feKind # "fromSideEffect" => feSource = "value"
  /\ feSubscribed = FALSE
  /\ feSent = << >>
  /\ fePIn = << >>
  /\ feFlowIn = << >>
  /\ feOrig = << >>
  /\ feOut = << >>

\* the flow is given the actions and subscribed
FlowEditSubscribe ==
  /\ ~feSubscribed
  /\ feSubscribed' = TRUE
  /\ LET states == IF feKind = "fromSideEffect" THEN toObservable(feSource) ELSE <<0>>
     IN /\ feOrig' = feOrig \o states
        /\ feOut' = feOut \o statePipeline(feKind, states)
  /\ UNCHANGED <<feKind, feSource, feSent, fePIn, feFlowIn>>

\* an action comes in
FlowEditAction ==
  /\ feSubscribed
  /\ Len(feSent) < MaxFlowActions
  /\ \E a \in FlowActions :
       LET r      == actionPipeline(feKind, a)
           states == IF feKind = "fromSideEffect" THEN r.flowIn
                     ELSE originalFlow(Len(feFlowIn), r.flowIn)
       IN /\ feSent' = Append(feSent, a)
          /\ fePIn' = fePIn \o r.pIn
          /\ feFlowIn' = feFlowIn \o r.flowIn
          /\ feOrig' = IF feKind = "fromSideEffect" THEN feOrig ELSE feOrig \o states
          /\ feOut' = feOut \o statePipeline(feKind, states)
  /\ UNCHANGED <<feKind, feSource, feSubscribed>>

\* the state Observable given to fromSideEffect emits
FlowEditSourceEmit ==
  /\ feSubscribed
  /\ feKind = "fromSideEffect"
  /\ feSource = "observable"
  /\ Len(feOrig) < MaxSourceEmits
  /\ feOrig' = Append(feOrig, Len(feOrig))
  /\ feOut' = Append(feOut, Len(feOrig))
  /\ UNCHANGED <<feKind, feSource, feSubscribed, feSent, fePIn, feFlowIn>>

feVars == <<feKind, feSource, feSubscribed, feSent, fePIn, feFlowIn, feOrig, feOut>>

(***************************************************************************)
(* animatingFlow (flow.ts): the animation state of an Animated part. Time  *)
(* is counted in milliseconds; the timers of Rx.delay and Rx.debounceTime  *)
(* hold the milliseconds left until they fire.                             *)
(***************************************************************************)
MaxChildStates == 2
MaxAnimActions == 2
MaxTicks == 2

WAIT_UNTIL_SECOND_STATE_CHANGE_EMITS == 100
WAIT_UNTIL_ANY_EVENTS_EMITS_FROM_ANIMATION == 500
WAIT_UNTIL_ANIMATION_END_EMITS_IF_IT_WAS_STARTED ==
  WAIT_UNTIL_ANY_EVENTS_EMITS_FROM_ANIMATION * 10

\* the results a decision function gives, and the kinds of animation events
Decisions == {"none", "both", "right", "left"}
EventKinds == {"start", "end"}
TransitionTypes == {"in", "out"}

\* T.These<Out, In> as [left, right], and its getLeft / getRight
getLeft(these) == these.left
getRight(these) == these.right

\* shouldAnimate(prevChildren, nextChildren) of a decision function that
\* decides d for this pair of states
shouldAnimate(d) ==
  CASE d = "none"  -> None
    [] d = "both"  -> Some([left |-> Some("out"), right |-> Some("in")])
    [] d = "right" -> Some([left |-> None, right |-> Some("in")])
    [] d = "left"  -> Some([left |-> Some("out"), right |-> None])

\* an AnimationState with no iteration
NoAnimationState == << >>

\* mutant: the outgoing iteration is given the new child state
collectAnimationStateNew(prevAnimationState, nextChildren, prevIteration, transition) ==
  LET prevChildren  == IF prevIteration \in DOMAIN prevAnimationState
                       THEN Some(prevAnimationState[prevIteration].children)
                       ELSE None
      nextIteration == prevIteration + 1
  IN IF ~transition.has
     THEN prevIteration :> [root |-> None, children |-> nextChildren]
     ELSE LET animationState ==
                nextIteration :> [root |-> getRight(transition.v), children |-> nextChildren]
              prevTransition == getLeft(transition.v)
          IN IF prevTransition.has /\ prevChildren.has
             THEN (prevIteration :> [root |-> prevTransition, children |-> nextChildren])
                    @@ animationState
             ELSE animationState

\* mutant: with no transition decided the iterations and their roots are kept
collectAnimationStateKeep(prevAnimationState, nextChildren, prevIteration, transition) ==
  LET prevChildren  == IF prevIteration \in DOMAIN prevAnimationState
                       THEN Some(prevAnimationState[prevIteration].children)
                       ELSE None
      nextIteration == prevIteration + 1
  IN IF ~transition.has
     THEN IF prevChildren.has
          THEN [prevAnimationState EXCEPT ![prevIteration].children = nextChildren]
          ELSE prevIteration :> [root |-> None, children |-> nextChildren]
     ELSE LET animationState ==
                nextIteration :> [root |-> getRight(transition.v), children |-> nextChildren]
              prevTransition == getLeft(transition.v)
          IN IF prevTransition.has /\ prevChildren.has
             THEN (prevIteration :> [root |-> prevTransition, children |-> prevChildren.v])
                    @@ animationState
             ELSE animationState

\* collectAnimationState(shouldAnimate, iterationVar)(prevAnimationState,
\* nextChildren), with prevIteration the value of iterationVar() and
\* transition the result of shouldAnimate
collectAnimationState(prevAnimationState, nextChildren, prevIteration, transition) ==
  LET prevChildren  == IF prevIteration \in DOMAIN prevAnimationState
                       THEN Some(prevAnimationState[prevIteration].children)
                       ELSE None
      nextIteration == prevIteration + 1
  IN IF ~transition.has
     THEN prevIteration :> [root |-> None, children |-> nextChildren]
     ELSE LET animationState ==
                nextIteration :> [root |-> getRight(transition.v), children |-> nextChildren]
              prevTransition == getLeft(transition.v)
          IN IF prevTransition.has /\ prevChildren.has
             THEN (prevIteration :> [root |-> prevTransition, children |-> prevChildren.v])
                    @@ animationState
             ELSE animationState

\* mutant: the key of the outgoing iteration, the one assigned last
lastKeyAssigned(state) == CHOOSE k \in DOMAIN state : \A j \in DOMAIN state : k <= j

\* Number(Object.keys(state).pop()): integer keys are enumerated in
\* ascending order, the last key is the highest
lastKey(state) == CHOOSE k \in DOMAIN state : \A j \in DOMAIN state : j <= k

\* Record.deleteAt(prevKey)
deleteAt(state, key) == [k \in DOMAIN state \ {key} |-> state[k]]

\* the applicator of nextTransitionEvents: the root of nextKey becomes none
resetRoot(state, key) == [state EXCEPT ![key].root = None]

\* mutant: the grace delay is the short one whatever the event
delayShort(kind) == WAIT_UNTIL_ANY_EVENTS_EMITS_FROM_ANIMATION

\* mutant: the grace delay is the long one whatever the event
delayLong(kind) == WAIT_UNTIL_ANIMATION_END_EMITS_IF_IT_WAS_STARTED

\* the argument of Rx.delay in getEventsByKey for an action of the kind
delay(kind) ==
  IF kind = "start"
  THEN WAIT_UNTIL_ANIMATION_END_EMITS_IF_IT_WAS_STARTED
  ELSE WAIT_UNTIL_ANY_EVENTS_EMITS_FROM_ANIMATION

\* an Observable that emits nothing; also a getEventsByKey that has emitted
\* (Rx.first() completed it)
EMPTY ==
  [on |-> FALSE, key |-> 0, type |-> "", left |-> 0, started |-> FALSE,
   since |-> 0, by |-> "", ago |-> 0]

\* getEventsByKey(animation, key)(animationType) subscribed: startWith
\* {kind: 'init'} starts the timer. since counts the milliseconds from the
\* subscription or from the latest start event, ago those since it emitted
\* (up to the time of debounceTime)
getEventsByKey(key, animationType) ==
  [on |-> TRUE, key |-> key, type |-> animationType, left |-> delay("init"),
   started |-> FALSE, since |-> 0, by |-> "", ago |-> 0]

\* mutant: the direction of the event is not looked at
eventFilterKey(a, key, animationType) == a.root /\ a.key = key

\* the filters of AnimationActions.split (a.action.key === 'root') and of
\* getEventsByKey (a.key === key && a.action.animationType === animationType)
eventFilter(a, key, animationType) ==
  a.root /\ a.key = key /\ a.type = animationType

\* the getEventsByKey l is given the action a: an end event is passed on
\* and completes it, another event restarts the timer (switchMap)
onAnimation(l, a) ==
  IF l.on /\ eventFilter(a, l.key, l.type)
  THEN IF a.kind = "end"
       THEN [l EXCEPT !.on = FALSE, !.by = "end"]
       ELSE [l EXCEPT !.left = delay(a.kind), !.started = TRUE, !.since = 0]
  ELSE l

\* the timer of the getEventsByKey l fires: it emits the end it made
onTimer(l) == [l EXCEPT !.on = FALSE, !.by = "timer"]

\* prevTransitionEvents and nextTransitionEvents of
\* updateStateByAnimationEvents(animation, iterationVar)(init)
prevTransitionEvents(init, iteration) ==
  LET prevKey == iteration - 1
  IN IF prevKey \in DOMAIN init /\ init[prevKey].root.has
     THEN getEventsByKey(prevKey, init[prevKey].root.v)
     ELSE EMPTY

nextTransitionEvents(init, iteration) ==
  LET nextKey == iteration
  IN IF init[nextKey].root.has
     THEN getEventsByKey(nextKey, init[nextKey].root.v)
     ELSE EMPTY

\* mutant: debounceTime emits every value at once
debounceTimeNone(state, debounce, p0, n0, p1, n1) ==
  LET prevDone == p0.on /\ ~p1.on
      nextDone == n0.on /\ ~n1.on
      s1       == IF prevDone THEN deleteAt(state, p0.key) ELSE state
      s2       == IF nextDone THEN resetRoot(s1, n0.key) ELSE s1
  IN [state |-> s2, emit |-> prevDone \/ nextDone, debounce |-> 0 - 1]

\* merge(prevTransitionEvents, nextTransitionEvents), Rx.scan of the
\* applicators and Rx.debounceTime, after the two getEventsByKey went from
\* p0, n0 to p1, n1: the state of the scan, whether a state is emitted now
\* (debounceTime passes its pending value on when its source completes) and
\* the milliseconds left of debounceTime
debounceTime(state, debounce, p0, n0, p1, n1) ==
  LET prevDone == p0.on /\ ~p1.on
      nextDone == n0.on /\ ~n1.on
      s1       == IF prevDone THEN deleteAt(state, p0.key) ELSE state
      s2       == IF nextDone THEN resetRoot(s1, n0.key) ELSE s1
      changed  == prevDone \/ nextDone
      allDone  == ~p1.on /\ ~n1.on
  IN [state    |-> s2,
      emit     |-> changed /\ allDone,
      debounce |-> IF ~changed THEN debounce
                   ELSE IF allDone THEN 0 - 1
                   ELSE WAIT_UNTIL_SECOND_STATE_CHANGE_EMITS]

\* the buffer of publishReplay(1) in AnimationActions.split
NoAction == [has |-> FALSE, root |-> FALSE, key |-> 0, kind |-> "", type |-> ""]
ChildrenAction(key) ==
  [has |-> TRUE, root |-> FALSE, key |-> key, kind |-> "", type |-> ""]
RootAction(key, kind, type) ==
  [has |-> TRUE, root |-> TRUE, key |-> key, kind |-> kind, type |-> type]

AnimVarsInit ==
  /\ anIter = 0
  /\ anAcc = NoAnimationState
  /\ anInner = NoAnimationState
  /\ anOut = << >>
  /\ anLast = NoAnimationState
  /\ anPrev = EMPTY
  /\ anNext = EMPTY
  /\ anDebounce = 0 - 1
  /\ anReplay = NoAction
  /\ anAge = 0
  /\ anSeen = FALSE
  /\ anDecision = ""
  /\ anCount = [states |-> 0, actions |-> 0, ticks |-> 0, forwarded |-> 0]
  /\ anSubscribed = TRUE

\* the flow is subscribed: let iterationVar = 0, nothing emitted yet
AnimInit == AnimVarsInit

\* mutant: the timers are left running
innerUnsubscribeKeep(p, n, debounce) == [prev |-> p, next |-> n, debounce |-> debounce]

\* the inner Observable of switchMap is unsubscribed, by switchMap for the
\* next one or with the output: the timers of Rx.delay and
\* Rx.debounceTime are cancelled with it
innerUnsubscribe(p, n, debounce) ==
  [prev |-> [p EXCEPT !.on = FALSE], next |-> [n EXCEPT !.on = FALSE],
   debounce |-> 0 - 1]

\* the original flow emits its next state, for which the decision function
\* decides d: Rx.scan(collectAnimationState), the tap that sets
\* iterationVar, and switchMap(updateStateByAnimationEvents), which drops
\* the inner Observable it had and subscribes the new one. startWith(init)
\* emits init, then the two getEventsByKey subscribe to the animation
\* stream, which replays the action in the buffer to each
onChildState(d, replay) ==
  LET n     == anCount.states + 1
      init  == collectAnimationState(anAcc, n, anIter, shouldAnimate(d))
      iter  == lastKey(init)
      p0    == prevTransitionEvents(init, iter)
      n0    == nextTransitionEvents(init, iter)
      p1    == IF replay.has THEN onAnimation(p0, replay) ELSE p0
      n1    == IF replay.has THEN onAnimation(n0, replay) ELSE n0
      r     == debounceTime(init, innerUnsubscribe(anPrev, anNext, anDebounce).debounce,
                            p0, n0, p1, n1)
  IN /\ anAcc' = init
     /\ anIter' = iter
     /\ anInner' = r.state
     /\ anOut' = IF r.emit THEN <<init, r.state>> ELSE <<init>>
     /\ anLast' = IF r.emit THEN r.state ELSE init
     /\ anPrev' = p1
     /\ anNext' = n1
     /\ anDebounce' = r.debounce
     /\ anAge' = 0
     /\ anSeen' = (p1 # p0 \/ n1 # n0)
     /\ anDecision' = d

\* the original flow emits a state by itself
AnimFlowEmit ==
  /\ anSubscribed
  /\ UNCHANGED anSubscribed
  /\ anCount.states < MaxChildStates
  /\ \E d \in Decisions : onChildState(d, anReplay)
  /\ anCount' = [anCount EXCEPT !.states = @ + 1]
  /\ UNCHANGED anReplay

\* mutant: the key of the outgoing iteration passes too
childFilterLive(key, iteration) == key \in {iteration - 1, iteration}

\* Rx.filter(a => a.key === String(iterationVar)) before the original flow
childFilter(key, iteration) == key = iteration

\* a children action tagged with the iteration key comes in: it is forwarded
\* to the original flow if it passes the filter, and the original flow, once
\* it has emitted a state, answers with a new state
AnimChildAction ==
  /\ anSubscribed
  /\ UNCHANGED anSubscribed
  /\ anCount.actions < MaxAnimActions
  /\ \E key \in {k \in {anIter - 1, anIter} : k >= 0} :
       /\ anReplay' = ChildrenAction(key)
       /\ IF childFilter(key, anIter) /\ anCount.states > 0
             /\ anCount.states < MaxChildStates
          THEN /\ \E d \in Decisions : onChildState(d, ChildrenAction(key))
               /\ anCount' = [anCount EXCEPT !.states = @ + 1, !.actions = @ + 1,
                                             !.forwarded = @ + 1]
          ELSE /\ anCount' = [anCount EXCEPT !.actions = @ + 1,
                                !.forwarded = IF childFilter(key, anIter) THEN @ + 1 ELSE @]
               /\ anOut' = << >>
               /\ UNCHANGED <<anIter, anAcc, anInner, anLast, anPrev, anNext,
                              anDebounce, anAge, anSeen, anDecision>>

\* an animation event comes in: the two getEventsByKey are given it
AnimEvent ==
  /\ anSubscribed
  /\ UNCHANGED anSubscribed
  /\ anCount.actions < MaxAnimActions
  /\ \E key \in {k \in {anIter - 1, anIter} : k >= 0},
        kind \in EventKinds, type \in TransitionTypes :
       LET a  == RootAction(key, kind, type)
           p1 == onAnimation(anPrev, a)
           n1 == onAnimation(anNext, a)
           r  == debounceTime(anInner, anDebounce, anPrev, anNext, p1, n1)
       IN /\ anReplay' = a
          /\ anPrev' = p1
          /\ anNext' = n1
          /\ anInner' = r.state
          /\ anDebounce' = r.debounce
          /\ anOut' = IF r.emit THEN <<r.state>> ELSE << >>
          /\ anLast' = IF r.emit THEN r.state ELSE anLast
          /\ anSeen' = (anSeen \/ p1 # anPrev \/ n1 # anNext)
  /\ anCount' = [anCount EXCEPT !.actions = @ + 1]
  /\ UNCHANGED <<anIter, anAcc, anAge, anDecision>>

\* the timer of a getEventsByKey fires
AnimTimer ==
  /\ UNCHANGED anSubscribed
  /\ \E which \in {"prev", "next"} :
       LET l  == IF which = "prev" THEN anPrev ELSE anNext
           p1 == IF which = "prev" THEN onTimer(anPrev) ELSE anPrev
           n1 == IF which = "next" THEN onTimer(anNext) ELSE anNext
           r  == debounceTime(anInner, anDebounce, anPrev, anNext, p1, n1)
       IN /\ l.on
          /\ l.left = 0
          /\ anPrev' = p1
          /\ anNext' = n1
          /\ anInner' = r.state
          /\ anDebounce' = r.debounce
          /\ anOut' = IF r.emit THEN <<r.state>> ELSE << >>
          /\ anLast' = IF r.emit THEN r.state ELSE anLast
  /\ UNCHANGED <<anIter, anAcc, anReplay, anAge, anSeen, anDecision, anCount>>

\* the timer of debounceTime fires: the pending state is emitted
AnimDebounce ==
  /\ UNCHANGED anSubscribed
  /\ anDebounce = 0
  /\ anDebounce' = 0 - 1
  /\ anOut' = <<anInner>>
  /\ anLast' = anInner
  /\ UNCHANGED <<anIter, anAcc, anInner, anPrev, anNext, anReplay, anAge,
                 anSeen, anDecision, anCount>>

\* the milliseconds left of the timers that run
Running ==
  (IF anPrev.on THEN {anPrev.left} ELSE {})
    \cup (IF anNext.on THEN {anNext.left} ELSE {})
    \cup (IF anDebounce >= 0 THEN {anDebounce} ELSE {})

\* the clock anAge stops here
AgeCap ==
  WAIT_UNTIL_ANY_EVENTS_EMITS_FROM_ANIMATION + 2 * WAIT_UNTIL_SECOND_STATE_CHANGE_EMITS

passTime(l, d) ==
  IF l.on THEN [l EXCEPT !.left = @ - d, !.since = @ + d]
  ELSE IF l.by # "" /\ l.ago + d <= WAIT_UNTIL_SECOND_STATE_CHANGE_EMITS
  THEN [l EXCEPT !.ago = @ + d]
  ELSE [l EXCEPT !.ago = WAIT_UNTIL_SECOND_STATE_CHANGE_EMITS]

\* d milliseconds pass, no timer being due within them: a tick of 100ms, or
\* the time to the next timer; with no timer running the clock goes on to
\* AgeCap while the output is subscribed
AnimAdvance ==
  /\ UNCHANGED anSubscribed
  /\ anCount.states > 0
  /\ 0 \notin Running
  /\ Running = {} => (anSubscribed /\ anAge < AgeCap)
  /\ \E d \in {WAIT_UNTIL_SECOND_STATE_CHANGE_EMITS} \cup Running :
       /\ \A t \in Running : d <= t
       /\ d = WAIT_UNTIL_SECOND_STATE_CHANGE_EMITS => anCount.ticks < MaxTicks
       /\ anPrev' = passTime(anPrev, d)
       /\ anNext' = passTime(anNext, d)
       /\ anDebounce' = IF anDebounce >= 0 THEN anDebounce - d ELSE anDebounce
       /\ anAge' = IF anAge + d > AgeCap THEN AgeCap ELSE anAge + d
       /\ anCount' = IF d = WAIT_UNTIL_SECOND_STATE_CHANGE_EMITS
                     THEN [anCount EXCEPT !.ticks = @ + 1] ELSE anCount
  /\ anOut' = << >>
  /\ UNCHANGED <<anIter, anAcc, anInner, anLast, anReplay, anSeen, anDecision>>

\* the output of the flow is unsubscribed
AnimUnsubscribe ==
  /\ anSubscribed
  /\ anCount.states > 0
  /\ anSubscribed' = FALSE
  /\ LET u == innerUnsubscribe(anPrev, anNext, anDebounce)
     IN /\ anPrev' = u.prev
        /\ anNext' = u.next
        /\ anDebounce' = u.debounce
  /\ anOut' = << >>
  /\ UNCHANGED <<anIter, anAcc, anInner, anLast, anReplay, anAge, anSeen,
                 anDecision, anCount>>

anVars == <<anIter, anAcc, anInner, anOut, anLast, anPrev, anNext, anDebounce, anReplay,
            anAge, anSeen, anDecision, anCount, anSubscribed>>

treeVars == <<part, tree, ids, cur, stateN, actions, notified>>

sbVars == <<sb, sbUp, sbN>>

vars == <<ffVars, sbVars, treeVars, patchVars, promapVars, mountVars, kfVars, ufVars, feVars, anVars>>

(***************************************************************************)
(* The specifications. Each leaves the variables of the others alone.      *)
(***************************************************************************)
exceptFold == <<sbVars, treeVars, patchVars, promapVars, mountVars, kfVars, ufVars, feVars, anVars>>

exceptSplit == <<ffVars, treeVars, patchVars, promapVars, mountVars, kfVars, ufVars, feVars, anVars>>

exceptTree == <<ffVars, sbVars, patchVars, promapVars, mountVars, kfVars, ufVars, feVars, anVars>>

exceptPatch == <<ffVars, sbVars, treeVars, promapVars, mountVars, kfVars, ufVars, feVars, anVars>>

exceptPromap == <<ffVars, sbVars, treeVars, patchVars, mountVars, kfVars, ufVars, feVars, anVars>>

exceptMount == <<ffVars, sbVars, treeVars, patchVars, promapVars, kfVars, ufVars, feVars, anVars>>

exceptKnotFlow == <<ffVars, sbVars, treeVars, patchVars, promapVars, mountVars, ufVars, feVars, anVars>>

exceptUnionFlow == <<ffVars, sbVars, treeVars, patchVars, promapVars, mountVars, kfVars, feVars, anVars>>

exceptFlowEdit == <<ffVars, sbVars, treeVars, patchVars, promapVars, mountVars, kfVars, ufVars, anVars>>

exceptAnim == <<ffVars, sbVars, treeVars, patchVars, promapVars, mountVars, kfVars, ufVars, feVars>>

TreeInit ==
  /\ part \in TreeNames
  /\ tree = mount(TreeOf(part)).inst
  /\ ids = mount(TreeOf(part)).w
  /\ cur = None
  /\ stateN = 0
  /\ actions = << >>
  /\ notified = << >>

InitFold ==
  /\ FoldVarsInit
  /\ SplitVarsInit
  /\ TreeVarsInit
  /\ PatchVarsInit
  /\ PromapVarsInit
  /\ MountVarsInit
  /\ KnotFlowVarsInit
  /\ UnionFlowVarsInit
  /\ FlowEditVarsInit
  /\ AnimVarsInit

NextFold ==
  \/ FoldNext /\ UNCHANGED exceptFold
  \/ FoldNextSame /\ UNCHANGED exceptFold

SpecFold == InitFold /\ [][NextFold]_vars

InitSplit ==
  /\ FoldVarsInit
  /\ SplitVarsInit
  /\ TreeVarsInit
  /\ PatchVarsInit
  /\ PromapVarsInit
  /\ MountVarsInit
  /\ KnotFlowVarsInit
  /\ UnionFlowVarsInit
  /\ FlowEditVarsInit
  /\ AnimVarsInit

NextSplit ==
  \/ SplitNext /\ UNCHANGED exceptSplit
  \/ SplitComplete /\ UNCHANGED exceptSplit
  \/ SplitError /\ UNCHANGED exceptSplit
  \/ SplitOuterUnsubscribe /\ UNCHANGED exceptSplit
  \/ SplitInnerSubscribe /\ UNCHANGED exceptSplit
  \/ SplitInnerUnsubscribe /\ UNCHANGED exceptSplit

SpecSplit == InitSplit /\ [][NextSplit]_vars

Init ==
  /\ FoldVarsInit
  /\ SplitVarsInit
  /\ TreeInit
  /\ PatchVarsInit
  /\ PromapVarsInit
  /\ MountVarsInit
  /\ KnotFlowVarsInit
  /\ UnionFlowVarsInit
  /\ FlowEditVarsInit
  /\ AnimVarsInit

Next ==
  \/ Deliver /\ UNCHANGED exceptTree
  \/ Notify /\ UNCHANGED exceptTree

Spec == Init /\ [][Next]_vars

InitPatch ==
  /\ FoldVarsInit
  /\ SplitVarsInit
  /\ TreeVarsInit
  /\ PatchInit
  /\ PromapVarsInit
  /\ MountVarsInit
  /\ KnotFlowVarsInit
  /\ UnionFlowVarsInit
  /\ FlowEditVarsInit
  /\ AnimVarsInit

NextPatch == Patch /\ UNCHANGED exceptPatch

SpecPatch == InitPatch /\ [][NextPatch]_vars

InitPromap ==
  /\ FoldVarsInit
  /\ SplitVarsInit
  /\ TreeVarsInit
  /\ PatchVarsInit
  /\ PromapInit
  /\ MountVarsInit
  /\ KnotFlowVarsInit
  /\ UnionFlowVarsInit
  /\ FlowEditVarsInit
  /\ AnimVarsInit

NextPromap ==
  \/ PromapDeliver /\ UNCHANGED exceptPromap
  \/ PromapNotify /\ UNCHANGED exceptPromap

SpecPromap == InitPromap /\ [][NextPromap]_vars

InitMount ==
  /\ FoldVarsInit
  /\ SplitVarsInit
  /\ TreeVarsInit
  /\ PatchVarsInit
  /\ PromapVarsInit
  /\ MountInit
  /\ KnotFlowVarsInit
  /\ UnionFlowVarsInit
  /\ FlowEditVarsInit
  /\ AnimVarsInit

NextMount ==
  \/ MountSubscribe /\ UNCHANGED exceptMount
  \/ MountUnsubscribe /\ UNCHANGED exceptMount
  \/ MountFlowEmit /\ UNCHANGED exceptMount
  \/ MountNotify /\ UNCHANGED exceptMount

SpecMount == InitMount /\ [][NextMount]_vars

InitKnotFlow ==
  /\ FoldVarsInit
  /\ SplitVarsInit
  /\ TreeVarsInit
  /\ PatchVarsInit
  /\ PromapVarsInit
  /\ MountVarsInit
  /\ KnotFlowInit
  /\ UnionFlowVarsInit
  /\ FlowEditVarsInit
  /\ AnimVarsInit

NextKnotFlow ==
  \/ KnotFlowSubscribe /\ UNCHANGED exceptKnotFlow
  \/ KnotFlowAction /\ UNCHANGED exceptKnotFlow

SpecKnotFlow == InitKnotFlow /\ [][NextKnotFlow]_vars

InitUnionFlow ==
  /\ FoldVarsInit
  /\ SplitVarsInit
  /\ TreeVarsInit
  /\ PatchVarsInit
  /\ PromapVarsInit
  /\ MountVarsInit
  /\ KnotFlowVarsInit
  /\ UnionFlowInit
  /\ FlowEditVarsInit
  /\ AnimVarsInit

NextUnionFlow ==
  \/ UnionFlowSubscribe /\ UNCHANGED exceptUnionFlow
  \/ UnionFlowAction /\ UNCHANGED exceptUnionFlow

SpecUnionFlow == InitUnionFlow /\ [][NextUnionFlow]_vars

InitFlowEdit ==
  /\ FoldVarsInit
  /\ SplitVarsInit
  /\ TreeVarsInit
  /\ PatchVarsInit
  /\ PromapVarsInit
  /\ MountVarsInit
  /\ KnotFlowVarsInit
  /\ UnionFlowVarsInit
  /\ FlowEditInit
  /\ AnimVarsInit

NextFlowEdit ==
  \/ FlowEditSubscribe /\ UNCHANGED exceptFlowEdit
  \/ FlowEditAction /\ UNCHANGED exceptFlowEdit
  \/ FlowEditSourceEmit /\ UNCHANGED exceptFlowEdit

SpecFlowEdit == InitFlowEdit /\ [][NextFlowEdit]_vars

InitAnim ==
  /\ FoldVarsInit
  /\ SplitVarsInit
  /\ TreeVarsInit
  /\ PatchVarsInit
  /\ PromapVarsInit
  /\ MountVarsInit
  /\ KnotFlowVarsInit
  /\ UnionFlowVarsInit
  /\ FlowEditVarsInit
  /\ AnimInit

NextAnim ==
  \/ AnimFlowEmit /\ UNCHANGED exceptAnim
  \/ AnimChildAction /\ UNCHANGED exceptAnim
  \/ AnimEvent /\ UNCHANGED exceptAnim
  \/ AnimTimer /\ UNCHANGED exceptAnim
  \/ AnimDebounce /\ UNCHANGED exceptAnim
  \/ AnimAdvance /\ UNCHANGED exceptAnim
  \/ AnimUnsubscribe /\ UNCHANGED exceptAnim

SpecAnim == InitAnim /\ [][NextAnim]_vars

(***************************************************************************)
(* Properties of fromFoldable                                              *)
(***************************************************************************)

\* the key set of the collection received last (empty before the first)
ffPrevKeys == IF ffSeen THEN Range(ffLast.ks) ELSE {}

\* C4: the outer stream emits a Map for the first collection and afterwards
\* exactly for a collection whose key set differs from the key set of the
\* collection received before it; a collection with the same key set and
\* different values produces no outer emission and makes the stream of each
\* of its keys emit the key's new value.
C4_OuterEmitsOnKeySetChange ==
  [][ffSteps' = ffSteps + 1 =>
       /\ ffOutN' = IF ~ffSeen \/ Range(ffLast'.ks) # ffPrevKeys
                    THEN ffOutN + 1 ELSE ffOutN
       /\ (ffSeen /\ Range(ffLast'.ks) = ffPrevKeys /\ ffLast'.val # ffLast.val) =>
            /\ ffOut' = ffOut
            /\ \A k \in ffPrevKeys :
                 ffSubj'[MapGet(ffOut, k)] =
                   Append(ffSubj[MapGet(ffOut, k)], ffLast'.val[k])
    ]_vars

\* C4 witness: {x, y} persisted over two collections with different values:
\* one outer emission, two emissions of x's stream
C4_Witness ==
  /\ ffSteps = 2
  /\ ffOutN = 1
  /\ MapKeys(ffOut) = {"x", "y"}
  /\ ffSubj[MapGet(ffOut, "x")] = <<1, 2>>

\* C5: the stream the most recent outer Map holds under a key k is the one
\* k's values are pushed into for as long as k stays present; a key absent
\* from the previous collection gets a stream never used before, seeded with
\* its current value (so a key that disappeared and reappears does not get
\* its earlier stream back).
C5_PerKeyStreamIdentity ==
  [][ffSteps' = ffSteps + 1 =>
       /\ MapKeys(ffOut') = Range(ffLast'.ks)
       /\ \A k \in MapKeys(ffOut') :
            LET s == MapGet(ffOut', k)
            IN /\ MapGet(ffAcc', k) = s
               /\ IF k \in ffPrevKeys
                  THEN /\ s = MapGet(ffOut, k)
                       /\ \/ ffSubj'[s] = Append(ffSubj[s], ffLast'.val[k])
                          \/ ffLast' = ffLast /\ ffSubj'[s] = ffSubj[s]
                  ELSE /\ s \notin DOMAIN ffSubj
                       /\ ffSubj'[s] = <<ffLast'.val[k]>>
    ]_vars

\* C5 witness: y was present in three collections and kept its stream, x
\* disappeared and reappeared and holds the third stream created
C5_Witness ==
  /\ ffSteps = 3
  /\ MapKeys(ffOut) = {"x", "y"}
  /\ Len(ffSubj[MapGet(ffOut, "y")]) = 3
  /\ MapGet(ffOut, "x") = 3
  /\ Len(ffSubj[3]) = 1

(***************************************************************************)
(* Properties of splitBy                                                   *)
(***************************************************************************)

Last(q) == q[Len(q)]

\* the positions of the log at which the outer subscriber was notified
OuterEvents(s) ==
  SelectSeq(s.log, LAMBDA e : e.ev \in {"outerNext", "outerComplete", "outerError"})

\* C6: the groups are the maximal runs of equal discriminants of the upstream
\* values, in order: neighbouring groups differ in their key, a group holds
\* exactly the consecutive values of its run, the first of them the value
\* that opened it; every group but the last is completed, its completion
\* precedes the emission of its successor, and nothing is pushed into a
\* group after its completion; an outer subscriber that stays subscribed is
\* handed every group once, in order.
C6_OneGroupPerRun ==
  LET G == sb.groups
  IN /\ \A g \in 1..Len(G) :
          /\ Len(G[g].vals) >= 1
          /\ \A i \in 1..Len(G[g].vals) : G[g].vals[i].kind = G[g].key
          /\ \A i \in 1..(Len(G[g].vals) - 1) : G[g].vals[i + 1].n = G[g].vals[i].n + 1
          /\ G[g].vals[1].n = IF g = 1 THEN 1 ELSE Last(G[g - 1].vals).n + 1
          /\ g < Len(G) => G[g].key # G[g + 1].key /\ G[g].status = "complete"
     /\ \A i \in 1..Len(sb.log) :
          /\ (sb.log[i].ev = "outerNext" /\ sb.log[i].g > 1) =>
               \E j \in 1..(i - 1) : sb.log[j] = Ev("groupComplete", sb.log[i].g - 1, NoVal)
          /\ sb.log[i].ev \in {"groupComplete", "groupError"} =>
               \A j \in (i + 1)..Len(sb.log) : sb.log[j].g # sb.log[i].g
     /\ ~sb.destStopped =>
          OuterEvents(sb) = [g \in 1..Len(G) |-> Ev("outerNext", g, NoVal)]

\* C6 witness: the tags A, A, B, A gave the three groups A, B, A
C6_Witness ==
  /\ sbN = 4
  /\ Len(sb.groups) = 3
  /\ [g \in 1..3 |-> sb.groups[g].key] = <<"A", "B", "A">>
  /\ Len(sb.groups[1].vals) = 2
  /\ ~sb.destStopped

\* C7: once the upstream has completed or failed no group is open; the open
\* group, if there was one, was completed (failed with the same error), and
\* an outer subscriber still subscribed was completed (failed with it) right
\* after that, as the last notification of all.
C7_TerminationPropagates ==
  sbUp # "live" =>
    LET G    == sb.groups
        gEv  == IF sbUp = "complete" THEN Ev("groupComplete", Len(G), NoVal)
                ELSE Ev("groupError", Len(G), ErrVal(sbUp))
        oEv  == IF sbUp = "complete" THEN Ev("outerComplete", 0, NoVal)
                ELSE Ev("outerError", 0, ErrVal(sbUp))
        outs == OuterEvents(sb)
    IN /\ ~sb.current.some
       /\ \A g \in 1..Len(G) : G[g].status # "open"
       /\ Len(G) > 0 => G[Len(G)].status = (IF sbUp = "complete" THEN "complete" ELSE "error")
       /\ (Len(outs) > 0 /\ Last(outs).ev # "outerNext") =>
            /\ Last(sb.log) = oEv
            /\ Len(G) > 0 => sb.log[Len(sb.log) - 1] = gEv
       /\ sb.isStopped

\* C7 witness: the upstream failed while a group was open and the outer
\* subscriber was subscribed
C7_Witness ==
  /\ sbUp = "e1"
  /\ Len(sb.groups) = 2
  /\ Last(sb.log) = Ev("outerError", 0, ErrVal("e1"))

\* C8: once the outer subscriber has unsubscribed it is notified of nothing
\* more, whatever the upstream emits and whether or not the open group still
\* has subscribers.
C8_NoGroupAfterUnsubscribe ==
  [][sb.destStopped => OuterEvents(sb') = OuterEvents(sb)]_vars

\* C8 witness: the outer subscriber unsubscribed while the first group had a
\* subscriber; a later value opened a second group, which was not delivered,
\* and the end of the first group released the subscriber
C8_Witness ==
  /\ sbUp = "live"
  /\ sb.destStopped
  /\ Len(sb.groups) = 2
  /\ OuterEvents(sb) = <<Ev("outerNext", 1, NoVal)>>
  /\ Len(sb.groups[1].vals) = 2
  /\ sb.closed

(***************************************************************************)
(* Properties of the mounted tree                                          *)
(***************************************************************************)

\* { key: k1, action: { key: k2, ... { key: kn, action: a } } }
RECURSIVE Nested(_, _)
Nested(path, a) ==
  IF path = << >> THEN a
  ELSE [key |-> Head(path), action |-> Nested(Tail(path), a)]

\* C1: every action a rendered node notified reached the flow once, as the
\* value nested in the keys of the layers the node sits below (Knot children,
\* List keys, Union members, root for the Grid of a Knot; none for a
\* Composite), the outermost layer first, and the flow received nothing else.
C1_ActionsArePathExact ==
  /\ Len(actions) = Len(notified)
  /\ \A i \in 1..Len(actions) :
       actions[i] = Nested(notified[i].path, notified[i].a)

\* an action of a node three layers deep (Knot child, List key, Union
\* member) reached the flow
C1_Witness ==
  /\ part = "Tree2"
  /\ \E i \in 1..Len(actions) :
       /\ Len(notified[i].path) = 3
       /\ actions[i] = [key |-> "c", action |->
                         [key |-> notified[i].path[2], action |->
                           [key |-> notified[i].path[3], action |-> notified[i].a]]]

\* what an instance received last is the value v
Sees(inst, v) == inst.last.has /\ inst.last.v = v

\* the Knot instance inst of part p renders under the composed state s
KnotDelivers(p, inst, s) ==
  /\ inst.t = "knot"
  /\ inst.rendered
  /\ DOMAIN inst.kids = DOMAIN p.children
  /\ \A k \in DOMAIN p.children :
       /\ inst.kids[k] # NoInst
       /\ IF k \in DOMAIN s
          THEN Sees(inst.kids[k], s[k]) /\ inst.bind[k] # 0
          ELSE ~inst.kids[k].last.has /\ inst.bind[k] = 0
  /\ inst.grid.t = "node"
  /\ IF ROOT \in DOMAIN s
     THEN Sees(inst.grid, s[ROOT]) /\ inst.bind[ROOT] # 0
     ELSE ~inst.grid.last.has /\ inst.bind[ROOT] = 0

\* C2: once a composed state s was delivered to a mounted Knot, each child k
\* has seen s[k] last and the Grid s.root; a child whose key is absent from
\* s is rendered all the same and is bound to EMPTY, from which it has
\* received nothing.
C2_KnotStateDelivery ==
  cur.has =>
    /\ part \in {"Tree1", "Tree2"} => KnotDelivers(TreeOf(part), tree, cur.v)
    /\ (part = "Tree3" /\ cur.v.kind = "two") =>
         KnotDelivers(Tree3.members.two, tree.member, cur.v)

\* the child b lost its state after it had one: it is rendered again,
\* without state, while a and the Grid hold the latest values
C2_Witness ==
  /\ part = "Tree1"
  /\ cur.has
  /\ "b" \notin DOMAIN cur.v
  /\ tree.kids.b.t = "node"
  /\ tree.kids.b.render > 2
  /\ ~tree.kids.b.last.has
  /\ Sees(tree.kids.a, 2)
  /\ Sees(tree.grid, 1)

\* the composed states s1 and s2 of part p differ in values only: every
\* Knot state below has the same keys, every List collection the same key
\* set and every Union state the same tag
RECURSIVE SameShape(_, _, _)
SameShape(p, s1, s2) ==
  IF isComposite(p) THEN SameShape(p.child, s1, s2)
  ELSE IF isKnot(p)
  THEN /\ DOMAIN s1 = DOMAIN s2
       /\ \A k \in DOMAIN p.children \cap DOMAIN s1 :
            SameShape(p.children[k], s1[k], s2[k])
  ELSE IF isList(p)
  THEN /\ Range(s1.ks) = Range(s2.ks)
       /\ \A k \in Range(s1.ks) : SameShape(p.of, s1.val[k], s2.val[k])
  ELSE IF isUnion(p)
  THEN /\ s1[p.tag] = s2[p.tag]
       /\ SameShape(p.members[s1[p.tag]], s1, s2)
  ELSE TRUE

\* the nodes a part renders under a state (so: [has, v]) and the value each
\* of them is to see, read off the part and the state alone
RECURSIVE Expected(_, _, _)
RECURSIVE ExpectedKids(_, _, _, _)
RECURSIVE ExpectedElems(_, _, _, _)
ExpectedKids(p, keys, s, path) ==
  IF keys = << >> THEN {}
  ELSE LET k == Head(keys)
       IN Expected(p.children[k], IF k \in DOMAIN s THEN Some(s[k]) ELSE None,
                   Append(path, k))
            \cup ExpectedKids(p, Tail(keys), s, path)

ExpectedElems(p, keys, val, path) ==
  IF keys = << >> THEN {}
  ELSE Expected(p.of, Some(val[Head(keys)]), Append(path, Head(keys)))
         \cup ExpectedElems(p, Tail(keys), val, path)

Expected(p, so, path) ==
  IF isComposite(p)
  THEN {[path |-> path, name |-> p.grid, last |-> None]}
         \cup Expected(p.child, so, path)
  ELSE IF isKnot(p)
  THEN IF so.has
       THEN ExpectedKids(p, SortKeys(DOMAIN p.children), so.v, path)
              \cup {[path |-> Append(path, ROOT), name |-> p.grid,
                     last |-> IF ROOT \in DOMAIN so.v THEN Some(so.v[ROOT]) ELSE None]}
       ELSE {}
  ELSE IF isList(p)
  THEN IF so.has THEN ExpectedElems(p, so.v.ks, so.v.val, path) ELSE {}
  ELSE IF isUnion(p)
  THEN IF so.has
       THEN Expected(p.members[so.v[p.tag]], so, Append(path, so.v[p.tag]))
       ELSE {}
  ELSE {[path |-> path, name |-> p.node, last |-> so]}

\* the rendered nodes with the value each has seen last
Seen(inst) ==
  LET live == LiveNodes(inst, << >>)
  IN {[path |-> live[i].path, name |-> live[i].node.name,
       last |-> live[i].node.last] : i \in 1..Len(live)}

\* the rendered nodes with the invocation that made each
Renders(inst) ==
  LET live == LiveNodes(inst, << >>)
  IN {[path |-> live[i].path, name |-> live[i].node.name,
       render |-> live[i].node.render] : i \in 1..Len(live)}

\* C3: when the flow emits a state that differs from the previous one in
\* values only, no render function is invoked: the render count stays, every
\* rendered node is the one rendered before, and each of them has seen its
\* part of the new state.
C3_ValueUpdatesDoNotResolve ==
  [][(/\ cur.has
      /\ stateN' = stateN + 1
      /\ SameShape(TreeOf(part), cur.v, cur'.v))
     => /\ ids'.rc = ids.rc
        /\ Renders(tree') = Renders(tree)
        /\ Seen(tree') = Expected(TreeOf(part), cur', << >>)]_vars

\* three states with the tag two and with changing values were delivered:
\* the member, a Knot, and its nodes were rendered once and see the last
C3_Witness ==
  /\ part = "Tree3"
  /\ stateN = 3
  /\ Len(tree.sb.groups) = 1
  /\ LET vals == tree.sb.groups[1].vals
     IN /\ Len(vals) = 3
        /\ vals[1].kind = "two"
        /\ vals[2].x # vals[1].x
        /\ vals[3].x # vals[2].x
        /\ Sees(tree.member.kids.x, vals[3].x)
  /\ ids.rc = 2
  /\ Renders(tree) = {[path |-> <<"two", "x">>, name |-> "X", render |-> 0],
                      [path |-> <<"two", "root">>, name |-> "H", render |-> 1]}

\* the Union instance inst of part p renders the member the tag of s names
\* and nothing else: its nodes are those of that member, the group of the
\* tag is the open one and is subscribed to once, every group before it is
\* completed and has no subscriber left
UnionShows(p, inst, s) ==
  /\ inst.t = "union"
  /\ inst.rendered
  /\ inst.key = s[p.tag]
  /\ Seen(inst.member) = Expected(p.members[s[p.tag]], Some(s), << >>)
  /\ LET groups == inst.sb.groups
     IN /\ Len(groups) > 0
        /\ inst.sb.current.some
        /\ inst.sb.current.group = Len(groups)
        /\ groups[Len(groups)].key = s[p.tag]
        /\ \A g \in 1..Len(groups) :
             /\ groups[g].status = IF g = Len(groups) THEN "open" ELSE "complete"
             /\ groups[g].subs = IF g = Len(groups) THEN 1 ELSE 0

\* C9: after every state delivered to a mounted Union exactly the member of
\* the state's tag is rendered. A state with another tag than the previous
\* one completes the group of the previous member and resolves the new
\* member once, with nodes rendered in this step; a state with the same tag
\* opens no group.
C9_UnionRendersActiveMember ==
  [][(part = "Tree3" /\ stateN' = stateN + 1)
     => /\ UnionShows(Tree3, tree', cur'.v)
        /\ (cur.has /\ cur.v.kind # cur'.v.kind)
             => /\ Len(tree'.sb.groups) = Len(tree.sb.groups) + 1
                /\ ids'.rc - ids.rc = Cardinality(Renders(tree'.member))
                /\ \A r \in Renders(tree'.member) : r.render >= ids.rc
        /\ (cur.has /\ cur.v.kind = cur'.v.kind)
             => /\ Len(tree'.sb.groups) = Len(tree.sb.groups)
                /\ Renders(tree') = Renders(tree)]_vars

\* the tag went from two to one and back to two: the member two is rendered
\* for the second time, by new invocations
C9_Witness ==
  /\ part = "Tree3"
  /\ Len(tree.sb.groups) = 3
  /\ tree.sb.groups[1].key = "two"
  /\ tree.sb.groups[2].key = "one"
  /\ tree.sb.groups[3].key = "two"
  /\ tree.sb.groups[1].status = "complete"
  /\ tree.key = "two"
  /\ Renders(tree) = {[path |-> <<"two", "x">>, name |-> "X", render |-> 3],
                      [path |-> <<"two", "root">>, name |-> "H", render |-> 4]}

ListPart(name) == IF name = "Tree4" THEN Tree4 ELSE Tree2.children.c

ListInst(name, t) == IF name = "Tree4" THEN t ELSE t.kids.c

ListColl(name, s) == IF name = "Tree4" THEN s ELSE s.c

Entry(cache, k) == cache[CacheIndex(cache, k)]

\* C10: when a mounted List receives a collection with another key set, it
\* renders one subtree for each key of the new collection. A key of both
\* collections keeps its subtree: unless the element itself changed shape
\* its nodes are the ones rendered before, and they have seen the key's new
\* value. The subtree of a key that was absent before (never present, or
\* removed meanwhile) is rendered in this step.
C10_ListKeepsPersistingKeys ==
  [][(/\ part \in {"Tree2", "Tree4"}
      /\ cur.has
      /\ stateN' = stateN + 1
      /\ Range(ListColl(part, cur.v).ks) # Range(ListColl(part, cur'.v).ks))
     => LET of    == ListPart(part).of
            old   == ListColl(part, cur.v)
            new   == ListColl(part, cur'.v)
            cache == ListInst(part, tree).cache
            next_ == ListInst(part, tree').cache
        IN /\ {next_[i].key : i \in 1..Len(next_)} = Range(new.ks)
           /\ Len(next_) = Len(new.ks)
           /\ \A k \in Range(old.ks) \cap Range(new.ks) :
                /\ SameShape(of, old.val[k], new.val[k])
                     => Renders(Entry(next_, k).el) = Renders(Entry(cache, k).el)
                /\ Entry(next_, k).subj = Entry(cache, k).subj
                /\ Seen(Entry(next_, k).el) = Expected(of, Some(new.val[k]), << >>)
           /\ \A k \in Range(new.ks) \ Range(old.ks) :
                \A r \in Renders(Entry(next_, k).el) : r.render >= ids.rc]_vars

\* k1 and k2 were rendered, k1 was removed and came back: k2 is the subtree
\* of the first rendering and has seen a later value, k1 is a third one
C10_Witness ==
  /\ part = "Tree4"
  /\ stateN = 3
  /\ Len(tree.cache) = 2
  /\ Entry(tree.cache, "k2").el.grid.render = 2
  /\ Entry(tree.cache, "k1").el.grid.render = 4
  /\ Sees(Entry(tree.cache, "k2").el.child, 2)

(***************************************************************************)
(* Properties of patch                                                     *)
(***************************************************************************)

\* the part a path addresses, found by walking the tree: a Knot and a Union
\* take the next segment as a key, a Composite and a List are stepped
\* through; Undefined when a key does not exist or a Node is reached with
\* segments left
RECURSIVE Focus(_, _, _)
Focus(h, id, path) ==
  IF id = Undefined THEN Undefined
  ELSE IF path = << >> THEN id
  ELSE LET o == h[id]
       IN IF isComposite(o) THEN Focus(h, o.child, path)
          ELSE IF isKnot(o) THEN Focus(h, property(o.children, Head(path)), Tail(path))
          ELSE IF isList(o) THEN Focus(h, o.of, path)
          ELSE IF isUnion(o) THEN Focus(h, property(o.members, Head(path)), Tail(path))
          ELSE Undefined

\* the tree at new (on heap hn) is the tree at old (on heap ho) except at
\* the part the path addresses: on the way every Grid, foldable and tag is
\* the same value and every child or member off the path the same object
RECURSIVE SameOffPath(_, _, _, _, _)
SameOffPath(ho, hn, old, new, path) ==
  IF path = << >> THEN TRUE
  ELSE LET o == ho[old]
           n == hn[new]
       IN IF isComposite(o)
          THEN /\ DOMAIN n = DOMAIN o
               /\ n.grid = o.grid
               /\ SameOffPath(ho, hn, o.child, n.child, path)
          ELSE IF isKnot(o)
          THEN /\ DOMAIN n = DOMAIN o
               /\ n.grid = o.grid
               /\ DOMAIN n.children = DOMAIN o.children
               /\ \A k \in DOMAIN o.children \ {Head(path)} :
                    n.children[k] = o.children[k]
               /\ SameOffPath(ho, hn, o.children[Head(path)],
                              n.children[Head(path)], Tail(path))
          ELSE IF isList(o)
          THEN /\ DOMAIN n = DOMAIN o
               /\ n.foldable = o.foldable
               /\ SameOffPath(ho, hn, o.of, n.of, path)
          ELSE IF isUnion(o)
          THEN /\ DOMAIN n = DOMAIN o
               /\ n.tag = o.tag
               /\ DOMAIN n.members = DOMAIN o.members
               /\ \A k \in DOMAIN o.members \ {Head(path)} :
                    n.members[k] = o.members[k]
               /\ SameOffPath(ho, hn, o.members[Head(path)],
                              n.members[Head(path)], Tail(path))
          ELSE TRUE

\* the last call of patch had a path that addresses a part of its tree
PatchedAt ==
  /\ pN > 0
  /\ Focus(pIn.heap, pIn.root, pIn.path) # Undefined

\* C11: after patch(...path)(f)(tree) every object that existed before the
\* call is what it was (the input tree is unmodified), and the result
\* differs from the input only at the addressed part: the Grids, foldables
\* and tags on the way are the same values, the children and members off
\* the path the same objects.
C11_PatchLeavesTheRestAlone ==
  /\ SubSeq(pHeap, 1, Len(pIn.heap)) = pIn.heap
  /\ PatchedAt =>
       /\ ~pThrown
       /\ SameOffPath(pIn.heap, pHeap, pIn.root, pRoot, pIn.path)

\* a grandchild of a Knot with siblings on both levels was replaced
C11_Witness ==
  /\ PatchedAt
  /\ Len(pIn.path) = 2
  /\ pIn.f = "replace"
  /\ isKnot(pHeap[pRoot])
  /\ pRoot # pIn.root
  /\ pHeap[pRoot].children.a = pIn.heap[pIn.root].children.a
  /\ pHeap[pHeap[pRoot].children.b].children.x
       # pIn.heap[pIn.heap[pIn.root].children.b].children.x

\* what f returned for the part current, on heap h
IsResultOfF(h, result, current, f, before) ==
  IF f = "replace" THEN result > before /\ h[result] = NodeP("N")
  ELSE IF f = "wrap" THEN result > before /\ h[result] = [grid |-> "W", child |-> current]
  ELSE result = current

\* C12: patch(...path)(f) called f once, with the part the path addresses
\* (segments taken at Knots and Unions only, Composites and Lists stepped
\* through while segments remain, the root itself for the empty path), and
\* the result holds what f returned in the place of that part.
C12_PatchAppliesFAtThePath ==
  PatchedAt =>
    LET current == Focus(pIn.heap, pIn.root, pIn.path)
    IN /\ ~pThrown
       /\ pCalls = <<current>>
       /\ IsResultOfF(pHeap, Focus(pHeap, pRoot, pIn.path), current, pIn.f,
                      Len(pIn.heap))
       /\ pIn.path = << >> => IsResultOfF(pHeap, pRoot, pIn.root, pIn.f, Len(pIn.heap))

\* a child of a Knot below a Composite was replaced with a path of one
\* segment: the Composite took none
C12_Witness ==
  /\ PatchedAt
  /\ isComposite(pIn.heap[pIn.root])
  /\ pIn.path = <<"a">>
  /\ pIn.f = "replace"
  /\ pCalls = <<pIn.heap[pIn.heap[pIn.root].child].children.a>>
  /\ isComposite(pHeap[pRoot])
  /\ pHeap[pHeap[pHeap[pRoot].child].children.a] = NodeP("N")

(***************************************************************************)
(* Properties of promap                                                    *)
(***************************************************************************)

\* C13: promap(part, identity, identity) and part, mounted with the same
\* flow and notified by the same nodes, have rendered the same nodes by the
\* same invocations, each node has seen the same state value last, and both
\* flows have received the same action values.
C13_PromapIdentity ==
  pmCase.kind = "identity" =>
    /\ Seen(pmA) = Seen(pmB)
    /\ Renders(pmA) = Renders(pmB)
    /\ pmActsA = pmActsB

\* a Knot under the identity promap got two states and an action of its Grid
C13_Witness ==
  /\ pmCase.kind = "identity"
  /\ pmCase.base = "Knot"
  /\ pmN = 2
  /\ Sees(pmA.grid, 2)
  /\ Sees(pmA.kids.a, 1)
  /\ Len(pmNotified) = 1
  /\ pmNotified[1].path = <<"root">>
  /\ pmActsA = <<[key |-> "root", action |-> pmNotified[1].a]>>

\* the nodes of the part of case c with the value each is to see for the
\* state s when the state adapter is st, and the value the flow is to
\* receive when the node at path notifies a and the action adapter is ac:
\* the adapters apply to a Node itself, to the Grid of a Knot (its children
\* are left alone) and to each element of a List
AdaptedSeen(c, s, st) ==
  IF c.base = "Node" THEN {[path |-> << >>, name |-> "A", last |-> Some(st[s])]}
  ELSE IF c.base = "Knot"
  THEN {[path |-> <<"a">>, name |-> "A", last |-> Some(s.a)],
        [path |-> <<"root">>, name |-> "G", last |-> Some(st[s.root])]}
  ELSE {[path |-> <<s.ks[i]>>, name |-> "E", last |-> Some(st[s.val[s.ks[i]]])] :
          i \in 1..Len(s.ks)}

AdaptedAction(c, path, a, ac) ==
  IF c.base = "Knot" /\ path # <<"root">> THEN Nested(path, a)
  ELSE Nested(path, ac[a])

\* C14: promap(promap(part, f1, g1), f2, g2) and
\* promap(part, s => f1(f2(s)), a => g2(g1(a))), mounted with the same flow
\* and notified by the same nodes, have rendered the same nodes seeing the
\* same values and both flows have received the same action values: the
\* adapted function has seen f1(f2(s)) for the state s, its action a has
\* reached the flow as g2(g1(a)) below the keys of its layers, and the
\* children of a Knot are those of the input and see their own state.
C14_PromapComposition ==
  pmCase.kind = "compose" =>
    LET st == [s \in NodeVals |-> stateFn(pmCase.f1, stateFn(pmCase.f2, s))]
        ac == [a \in Actions |-> actionFn(pmCase.g2, actionFn(pmCase.g1, a))]
    IN /\ Seen(pmA) = Seen(pmB)
       /\ Renders(pmA) = Renders(pmB)
       /\ pmActsA = pmActsB
       /\ pmCur.has => Seen(pmA) = AdaptedSeen(pmCase, pmCur.v, st)
       /\ Len(pmActsA) = Len(pmNotified)
       /\ \A i \in 1..Len(pmActsA) :
            pmActsA[i] = AdaptedAction(pmCase, pmNotified[i].path, pmNotified[i].a, ac)
       /\ pmCase.base = "Knot" =>
            PromapLeft(pmCase).children = PromapBase(pmCase.base).children

\* a Node under two promaps with different adapters saw f1(f2(2)) and its
\* action reached the flow as g2(g1(a))
C14_Witness ==
  /\ pmCase.kind = "compose"
  /\ pmCase.base = "Node"
  /\ pmCase.f1 = "f1"
  /\ pmCase.f2 = "f2"
  /\ pmCase.g1 = "g1"
  /\ pmCase.g2 = "g2"
  /\ pmCur.has
  /\ pmCur.v = 2
  /\ Sees(pmA, 16)
  /\ pmActsA = <<[g2 |-> [g1 |-> [leaf |-> "click"]]]>>

(***************************************************************************)
(* Properties of the Composite                                             *)
(***************************************************************************)

\* the Composite instance inst adds no layer: its child notifies through
\* the very notify the Composite was given and has seen the value the
\* Composite received last; its Grid has received no state and its notify
\* drops every action
CompositeAddsNoLayer(inst) ==
  /\ inst.t = "composite"
  /\ inst.child.notify = inst.notify
  /\ inst.child.last = inst.last
  /\ inst.grid.t = "node"
  /\ ~inst.grid.last.has
  /\ inst.grid.notify.void

\* C17: every rendered Composite (the elements of the List of Tree4) adds no
\* layer to state or actions, and an action of its child has reached the
\* flow below the List key alone, with no key of the Composite.
C17_CompositeAddsNoLayer ==
  part = "Tree4" =>
    /\ \A i \in 1..Len(tree.cache) :
         /\ CompositeAddsNoLayer(tree.cache[i].el)
         /\ tree.cache[i].el.notify.keys = <<[key |-> tree.cache[i].key]>>
         /\ cur.has => Sees(tree.cache[i].el.child, cur.v.val[tree.cache[i].key])
    /\ \A i \in 1..Len(actions) :
         /\ Len(notified[i].path) = 1
         /\ actions[i] = [key |-> notified[i].path[1], action |-> notified[i].a]

\* the child of a Composite saw a second value and its action reached the
\* flow
C17_Witness ==
  /\ part = "Tree4"
  /\ stateN = 2
  /\ Len(tree.cache) = 1
  /\ tree.cache[1].el.t = "composite"
  /\ tree.cache[1].el.child.render = 1
  /\ Sees(tree.cache[1].el.child, 2)
  /\ actions = <<[key |-> tree.cache[1].key, action |-> [leaf |-> "click"]]>>

(***************************************************************************)
(* Properties of the state broadcast of mount                              *)
(***************************************************************************)
IsSuffix(s, t) == Len(s) <= Len(t) /\ s = SubSeq(t, Len(t) - Len(s) + 1, Len(t))

\* C15: the output of the flow is subscribed at most once at any time, so
\* the flow has received every action given to notify once and in order,
\* and of two subscribed consumers the one that subscribed later has seen
\* the same values as the other, from the replayed one on.
C15_OneUpstreamSubscription ==
  /\ mFlowSubs <= 1
  /\ mFlowIn = mNotified
  /\ \A c, d \in mSubs : IsSuffix(mSeen[c], mSeen[d]) \/ IsSuffix(mSeen[d], mSeen[c])
  /\ \A c \in mSubs : mSeen[c] # << >> => Last(mSeen[c]) = Last(mBuffer)

\* two consumers share one subscription, both saw the values and an action
\* went through the flow
C15_Witness ==
  /\ mSubs = Consumers
  /\ mFlowSubs = 1
  /\ mSeen[1] = <<1, 2>>
  /\ mSeen[2] = <<1, 2>>
  /\ Len(mFlowIn) = 1

\* C16: with no consumer the output of the flow is not subscribed and the
\* buffer is empty, and a subscribed consumer has received no value the
\* flow produced before the last consumer unsubscribed.
C16_BufferDiscardedAtZero ==
  /\ mSubs = {} => mFlowSubs = 0 /\ mBuffer = << >>
  /\ \A c \in mSubs : \A i \in 1..Len(mSeen[c]) : mSeen[c][i] > mZeroAt

\* the part of it the code keeps: with no consumer the output of the flow
\* is not subscribed
C16_FlowUnsubscribedAtZero == mSubs = {} => mFlowSubs = 0

\* a consumer subscribed after the last one left and received the value
\* produced before
C16_Witness ==
  /\ mZeroAt = 1
  /\ mN = 1
  /\ mSubs = {2}
  /\ mSeen[2] = <<1>>

(***************************************************************************)
(* Properties of composeKnot                                               *)
(***************************************************************************)
\* the value the flow of key emitted last among the first n emissions
RECURSIVE LatestOf(_, _, _)
LatestOf(log, n, key) ==
  IF n = 0 THEN None
  ELSE IF log[n].key = key THEN Some(log[n].v)
  ELSE LatestOf(log, n - 1, key)

\* the combined records that the first n emissions of the child flows call
\* for: one for every emission made when every flow has emitted, holding
\* the latest value of every flow
RECURSIVE Combined(_, _, _)
Combined(keys, log, n) ==
  IF n = 0 THEN << >>
  ELSE IF \A k \in Range(keys) : LatestOf(log, n, k).has
  THEN Append(Combined(keys, log, n - 1),
              [k \in Range(keys) |-> LatestOf(log, n, k).v])
  ELSE Combined(keys, log, n - 1)

\* C18: the composed flow has emitted nothing while some flow has not
\* emitted, and one record for every emission of a flow made after that,
\* with the new value under its key and the latest values of the others.
C18_CombineLatestOfChildren ==
  kfCl.out = Combined(kfComp.keys, kfEmits, Len(kfEmits))

\* a lazy root flow held the output back; then every emission gave a record
C18_Witness ==
  /\ kfComp.keys = <<"a", "b", "root">>
  /\ kfComp.kind["root"] = "lazy"
  /\ Len(kfEmits) = 5
  /\ Len(kfCl.out) = 2
  /\ kfCl.out[1] # kfCl.out[2]

\* the inner actions of the actions of key in sent, in order
RECURSIVE ActionsOf(_, _)
ActionsOf(sent, key) ==
  IF sent = << >> THEN << >>
  ELSE IF Head(sent).key = key
  THEN <<Head(sent).action>> \o ActionsOf(Tail(sent), key)
  ELSE ActionsOf(Tail(sent), key)

\* C19: a flow that subscribes to its actions has received the inner
\* actions of exactly the actions of its key, once each and in order.
C19_ActionsDemultiplexedByKey ==
  \A k \in Range(kfComp.keys) :
    kfComp.kind[k] # "EMPTY" => kfIn[k] = ActionsOf(kfSent, k)

\* actions of two keys were sent interleaved and each flow has its own
C19_Witness ==
  /\ kfComp.keys = <<"a", "b", "root">>
  /\ kfIn["a"] = <<"click", "press">>
  /\ kfIn["root"] = <<"press">>
  /\ kfIn["b"] = << >>
  /\ kfSent[2].key = "root"

\* C20: with a child flow () => EMPTY and a sibling that emits an initial
\* state, the subscribed flow has emitted a combined state with the state
\* of the sibling.
C20_EmptyChildFlowStillEmits ==
  (/\ kfSubscribed
   /\ kfComp.keys = <<"a", "b">>
   /\ kfComp.kind["a"] = "EMPTY"
   /\ kfComp.kind["b"] = "startWith")
    => /\ kfCl.out # << >>
       /\ kfCl.out[1]["b"] = 0

\* the sibling emitted its initial state and states after actions, and the
\* composed flow emitted nothing
C20_Witness ==
  /\ kfSubscribed
  /\ kfComp.keys = <<"a", "b">>
  /\ kfComp.kind["a"] = "EMPTY"
  /\ kfComp.kind["b"] = "startWith"
  /\ Len(kfEmits) = 3
  /\ kfCl.out = << >>

(***************************************************************************)
(* Properties of composeUnion                                              *)
(***************************************************************************)
\* the member subscriptions among the observers of the action Subject
MemberObs == SelectSeq(ufObs, LAMBDA o : o # Selector)

\* C21: at most one member flow is subscribed, that of the key the
\* kindSelector emitted last; a member flow received an action only while it
\* was the active member and only with its own key; the kindSelector
\* received every action.
C21_OneActiveMember ==
  /\ Len(MemberObs) <= 1
  /\ ufActive.has <=> Len(MemberObs) = 1
  /\ ufActive.has => MemberObs[1] = Member(ufActive.v.key, ufActive.v.id)
  /\ \A i \in 1..Len(ufIn) :
       /\ ufSent[ufIn[i].n].key = ufIn[i].key
       /\ ufIn[i].active.has
       /\ ufIn[i].active.v = [key |-> ufIn[i].key, id |-> ufIn[i].id]
  /\ ufSubscribed => ufSelIn = [i \in 1..Len(ufSent) |-> i]

\* the selector switched twice, the member active now received an action
C21_Witness ==
  /\ ufNextId = 4
  /\ Len(ufIn) >= 1
  /\ ufIn[Len(ufIn)].id = 3
  /\ ufActive.v.id = 3

\* C22: every emitted state is a state of the member flow active when it
\* was emitted, with the tag set to the key of that member.
C22_StateCarriesActiveTag ==
  \A i \in 1..Len(ufOut) :
    /\ ufOut[i].active.has
    /\ ufOut[i].from = ufOut[i].active.v
    /\ ufOut[i].state[UnionTag] = ufOut[i].from.key
    /\ \E n \in 0..MaxUnionActions : ufOut[i].state = addTag(memberState(n), UnionTag, ufOut[i].from.key)

\* states of both members were emitted, the second after an action
C22_Witness ==
  /\ Len(ufOut) >= 3
  /\ ufOut[1].state[UnionTag] = "one"
  /\ ufOut[Len(ufOut)].state = [text |-> 1, kind |-> "two"]

\* C23: an action with the key of the member active when it was given has
\* been received by that member's flow exactly once, whatever the
\* kindSelector answered to it.
C23_SwitchKeepsTheAction ==
  \A n \in 1..Len(ufSent) :
    (ufSent[n].active.has /\ ufSent[n].active.v.key = ufSent[n].key)
      => Len(SelectSeq(ufIn, LAMBDA e : e.n = n /\ e.id = ufSent[n].active.v.id)) = 1

\* the first switching action reached the member it was for, the second one,
\* for the member subscribed by the first switch, reached no flow
C23_Witness ==
  /\ Len(ufSent) = 2
  /\ ufNextId = 4
  /\ ufSent[2].active.v.id = 2
  /\ ufSent[2].key = ufSent[2].active.v.key
  /\ Len(ufIn) = 1
  /\ ufIn[1].n = 1

(***************************************************************************)
(* Properties of fromSideEffect and of the edited flows                    *)
(***************************************************************************)
\* C24: sideEffect has been called once with every incoming action, in
\* order, and the states emitted are the values of the state source: the
\* plain value once after subscription, nothing from an action.
C24_SideEffectPerActionOnly ==
  feKind = "fromSideEffect" =>
    /\ fePIn = feSent
    /\ feOut = feOrig
    /\ (feSubscribed /\ feSource = "value") => feOut = <<0>>

\* two actions came in between the values of the state Observable
C24_Witness ==
  /\ feKind = "fromSideEffect"
  /\ feSource = "observable"
  /\ fePIn = <<"a", "b">>
  /\ feOut = <<0, 1>>

LastOut == anLast

\* the iteration k of the animation state st has a pending transition in
\* the direction d
Pending(st, k, d) == k \in DOMAIN st /\ st[k].root = Some(d)

HasPending(st) == \E k \in DOMAIN st : st[k].root.has

\* the animation state with the current iteration only, its root none
SettledState(st, k) == k :> [root |-> None, children |-> st[k].children]

\* an animation event came in with this step
EventStep == anCount'.actions # anCount.actions /\ anReplay'.root

\* C27: when the decision is both(out, in) for the new child state while
\* the current iteration k holds a child state s, the state emitted next
\* holds exactly k, with root Some(out) and children s, and k + 1, with
\* root Some(in) and the new child state.
C27_BothKeepsTwoIterations ==
  [][(/\ anCount.states > 0
      /\ anCount'.states = anCount.states + 1
      /\ anDecision' = "both")
     => /\ Len(anOut') > 0
        /\ anOut'[1] =
             (anIter :> [root |-> Some("out"), children |-> LastOut[anIter].children])
               @@ ((anIter + 1) :> [root |-> Some("in"), children |-> anCount'.states])]_vars

C27_Witness ==
  /\ anDecision = "both"
  /\ anCount.states = 2
  /\ Len(anOut) = 1
  /\ DOMAIN LastOut = {anIter - 1, anIter}
  /\ LastOut[anIter - 1] = [root |-> Some("out"), children |-> 1]
  /\ LastOut[anIter] = [root |-> Some("in"), children |-> 2]

C29_StartExtendsGrace ==
  /\ [](\A l \in {anPrev, anNext} :
          /\ (l.started /\ l.by = "timer")
               => l.since >= WAIT_UNTIL_ANIMATION_END_EMITS_IF_IT_WAS_STARTED
          /\ (l.started /\ l.on)
               => l.since <= WAIT_UNTIL_ANIMATION_END_EMITS_IF_IT_WAS_STARTED)
  /\ [][(/\ EventStep
          /\ anReplay'.kind = "end"
          /\ Pending(anInner, anReplay'.key, anReplay'.type))
         => ~Pending(anInner', anReplay'.key, anReplay'.type)]_vars

C29_Witness ==
  \E l \in {anPrev, anNext} :
    /\ l.started
    /\ l.by = "timer"
    /\ l.since = WAIT_UNTIL_ANIMATION_END_EMITS_IF_IT_WAS_STARTED
    /\ ~Pending(anInner, l.key, l.type)

StateStep == anCount'.states = anCount.states + 1

C33_CancelledTimersNeverFire ==
  /\ [](~anSubscribed => Running = {})
  /\ [](\A l \in {anPrev, anNext} : l.on => Pending(anAcc, l.key, l.type))
  /\ [](anDebounce >= 0 => \E l \in {anPrev, anNext} : l.by # "")
  /\ [](anCount.states > 0 =>
          /\ DOMAIN anLast \subseteq DOMAIN anAcc
          /\ \A k \in DOMAIN anLast :
                /\ anLast[k].children = anAcc[k].children
                /\ anLast[k].root \in {None, anAcc[k].root})
  /\ [][~anSubscribed => (anOut' = << >> /\ anLast' = anLast)]_vars

\* the output was unsubscribed while both iterations of a transition were
\* pending, some time after it was emitted
C33_Witness ==
  /\ ~anSubscribed
  /\ anDecision = "both"
  /\ DOMAIN anInner = {anIter - 1, anIter}
  /\ anInner[anIter].root.has
  /\ anLast = anAcc
  /\ anAge > 0
\* the animation state st holds the iteration k alone, or k - 1 with a
\* root that is Some and k
IterationsOK(st, k) ==
  \/ DOMAIN st = {k}
  \/ DOMAIN st = {k - 1, k} /\ st[k - 1].root.has

\* C38: every emitted animation state holds the current iteration alone or
\* the current one and the one before it, whose root is Some; the current
\* iteration number changes only with a child state, by one when a
\* transition was decided and not at all when none was.
C38_IterationsAreConsecutive ==
  /\ [](anCount.states > 0 => IterationsOK(anLast, anIter))
  /\ [](\A i \in 1..Len(anOut) : IterationsOK(anOut[i], anIter))
  /\ [][/\ anIter' >= anIter
        /\ (~StateStep) => anIter' = anIter
        /\ (StateStep /\ anDecision' = "none") => anIter' = anIter
        /\ (StateStep /\ anDecision' # "none") => anIter' = anIter + 1]_vars

C38_Witness ==
  /\ anCount.states = 2
  /\ anIter = 2
  /\ DOMAIN anLast = {1, 2}
  /\ anLast[1].root.has
  /\ ~anLast[2].root.has
\* a children action came in with this step
ChildStep == anCount'.actions # anCount.actions /\ ~anReplay'.root

\* C39: a children action reaches the original flow if and only if its key
\* is the current iteration when it comes in; one tagged with the outgoing
\* iteration while two iterations are live changes nothing; no other step
\* hands the original flow an action.
C39_ChildActionsOfTheCurrentIteration ==
  [][/\ ChildStep =>
          /\ anCount'.forwarded =
               anCount.forwarded + (IF anReplay'.key = anIter THEN 1 ELSE 0)
          /\ (DOMAIN anInner = {anIter - 1, anIter} /\ anReplay'.key = anIter - 1)
               => /\ anOut' = << >>
                  /\ UNCHANGED <<anIter, anAcc, anInner, anLast, anPrev, anNext,
                                 anDebounce>>
     /\ (~ChildStep) => anCount'.forwarded = anCount.forwarded]_vars

\* two iterations are live and the one action so far, tagged with the
\* outgoing one, was not forwarded
C39_Witness ==
  /\ DOMAIN anInner = {anIter - 1, anIter}
  /\ anReplay.has
  /\ ~anReplay.root
  /\ anReplay.key = anIter - 1
  /\ anCount.actions = 1
  /\ anCount.forwarded = 0
\* C40: nothing that came in before a transition became pending settles
\* it: in the step in which a child state makes transitions pending, every
\* one of them is still pending afterwards, and the state emitted is the
\* one with them alone.
C40_OnlyLaterEventsSettle ==
  [][StateStep
     => /\ \A k \in DOMAIN anAcc' :
             anAcc'[k].root.has => Pending(anInner', k, anAcc'[k].root.v)
        /\ anOut' = <<anAcc'>>]_vars

\* the original flow has emitted a state by itself, and the end event in the
\* buffer of publishReplay(1), which no transition matched when it came in,
\* has removed the outgoing iteration of the new transition
C40_Witness ==
  /\ anAge = 0
  /\ anCount.states = 2
  /\ anCount.actions = 1
  /\ anReplay.root
  /\ anReplay.kind = "end"
  /\ anSeen
  /\ anDecision = "both"
  /\ anPrev.by = "end"
  /\ anPrev.key = anReplay.key
  /\ anPrev.type = anReplay.type
  /\ DOMAIN anAcc = {1, 2}
  /\ DOMAIN anInner = {2}

(***************************************************************************)
(* Properties of composeUnion: a repeated discriminant                     *)
(***************************************************************************)
\* C34: an action that leaves the discriminant as it was leaves the active
\* member's flow subscribed: the subscription that is active after the
\* action is the one that was active before it, so the member flow is not
\* restarted.
C34_RepeatedKeyKeepsTheMember ==
  [][(ufActive.has /\ ufActive'.has /\ ufActive'.v.key = ufActive.v.key)
       => ufActive'.v.id = ufActive.v.id]_ufVars

\* member one had counted an action when the kindSelector answered one
\* again: a second subscription of member one emitted its initial state
C34_Witness ==
  /\ Len(ufOut) >= 3
  /\ ufActive = Some([key |-> "one", id |-> 2])
  /\ ufOut[Len(ufOut)].from = [key |-> "one", id |-> 2]
  /\ ufOut[Len(ufOut)].state = addTag(memberState(0), UnionTag, "one")
  /\ ufOut[Len(ufOut) - 1].from = [key |-> "one", id |-> 1]
  /\ ufOut[Len(ufOut) - 1].state = addTag(memberState(1), UnionTag, "one")

(***************************************************************************)
(* Properties of the reserved key of a Knot                                *)
(***************************************************************************)
\* C35: at the level of a mounted Knot, the only rendered node whose
\* actions reach the flow under the key root is the Knot's own Grid, and no
\* child is bound to the state stream of the key root, whatever the keys of
\* the children are.
C35_RootIsTheGridsOwn ==
  (tree.t = "knot" /\ tree.rendered) =>
    LET live == LiveNodes(tree, << >>)
    IN /\ \A i \in 1..Len(live), a \in Actions :
            (~live[i].node.notify.void
               /\ applyNotify(live[i].node.notify.keys, a).key = ROOT)
              => live[i].node = tree.grid
       /\ \A k \in DOMAIN tree.kids :
            tree.bind[ROOT] # 0 => tree.bind[k] # tree.bind[ROOT]

\* the child in the slot root and the Grid have both received the state
\* stored under root, and a click of the child reached the flow as an
\* action of the key root
C35_Witness ==
  /\ part = "Tree5"
  /\ cur = Some([root |-> 2])
  /\ tree.kids.root.name = "R"
  /\ Sees(tree.kids.root, 2)
  /\ Sees(tree.grid, 2)
  /\ \E i \in 1..Len(actions) :
       /\ notified[i].path = <<ROOT>>
       /\ actions[i] = [key |-> ROOT, action |-> [leaf |-> "click"]]

(***************************************************************************)
(* Properties of promap on a List                                          *)
(***************************************************************************)
\* C36: promap(List(of), f1, g1) and the List whose template is of with the
\* adapters applied (to the wrapped child when of is a Composite), mounted
\* with the same flow and notified by the same nodes, have rendered the same
\* nodes by the same invocations, each node has seen the same state value
\* last, and both flows have received the same action values.
C36_PromapOfListTemplates ==
  pmCase.kind = "template" =>
    /\ Seen(pmA) = Seen(pmB)
    /\ Renders(pmA) = Renders(pmB)
    /\ pmActsA = pmActsB

\* a List of Composites under promap got an element: what it rendered for
\* the element is the call of the Composite object, while the List of the
\* adapted template rendered the Composite with its child seeing f1(2)
C36_Witness ==
  /\ pmCase.kind = "template"
  /\ pmCase.base = "ListOfComposite"
  /\ pmCur.has
  /\ pmCur.v.ks = <<"k1">>
  /\ pmCur.v.val.k1 = 2
  /\ pmA.cache[1].el.t = "node"
  /\ pmA.cache[1].el.name = TypeError
  /\ pmB.cache[1].el.t = "composite"
  /\ pmB.cache[1].el.child.name = "E"
  /\ Sees(pmB.cache[1].el.child, stateFn("f1", 2))

(***************************************************************************)
(* Properties of the order of a mounted List                               *)
(***************************************************************************)
\* the keys of the elements a List instance has rendered, in the order of
\* the rendered fragment
RenderedKeys(inst) == [i \in 1..Len(inst.cache) |-> inst.cache[i].key]

\* C37: once a collection was delivered to a mounted List, the elements it
\* has rendered are those of the collection in the order of the collection,
\* also when the collection before had the same keys in another order.
C37_ListFollowsTheOrder ==
  (part = "Tree4" /\ cur.has) => RenderedKeys(tree) = cur.v.ks

\* the Map with the keys k2, k1 was delivered after the Map with the keys
\* k1, k2: the rendered fragment still has k1 before k2
C37_Witness ==
  /\ part = "Tree4"
  /\ stateN = 2
  /\ cur.has
  /\ cur.v.ks = <<"k2", "k1">>
  /\ RenderedKeys(tree) = <<"k1", "k2">>
  /\ tree.ff.out # << >>
  /\ Sees(tree.cache[1].el.child, cur.v.val.k1)
  /\ Sees(tree.cache[2].el.child, cur.v.val.k2)
====
